---------------------------- MODULE Spec2Model ----------------------------
(***************************************************************************)
(* A model of the tool-calling subsystem of the Athena backend: the tool   *)
(* registry (tools/registry.py), the tools' execute operations             *)
(* (tools/system_tool.py, tools/google_calendar_tool.py) and the two       *)
(* provider adapters (tool_adapters/openai_adapter.py,                     *)
(* tool_adapters/anthropic_adapter.py).                                    *)
(*                                                                         *)
(* Python values are modelled as follows.  A dict is a sequence of         *)
(* [k, v] entries in insertion order with no repeated key (DictSet keeps   *)
(* the position of an existing key, as CPython does).  An object whose     *)
(* attributes are presence-checked with hasattr is a function from the     *)
(* attribute names it has to their values.  A value that may be None is    *)
(* wrapped: None is [py |-> "None"], any other value [py |-> kind, ...].   *)
(* A call that raises is recorded in the variable raised by the name of    *)
(* the exception class; "none" stands for a normal return.                 *)
(***************************************************************************)
EXTENDS Integers, Sequences, FiniteSets, TLC

VARIABLES
    tools,      \* ToolRegistry._tools: the dict name -> tool instance
    call,       \* the last call made: [fn |-> name of the function, ...arguments]
    raised,     \* the exception class the last call raised, "none" if it returned
    ret,        \* the value the last call returned (NoReturn if it raised)
    before,     \* ToolRegistry._tools as it was when the last call started
    addedBy,    \* per name, the instance of the last register_tool that returned,
                \* NoTool once the name was unregistered or the registry cleared
    snapshot,   \* the dict a caller holds from its last get_all_tools, or None
    instance,   \* ToolRegistry._instance: the registry object, or None
    googleLibs, \* whether google_calendar_tool's guarded imports succeeded
    arg,        \* the object handed to the adapter: [kind, v]
    status,     \* the streaming session: "idle", "open" or "ended"
    received,   \* the number of events the session has received
    blocks,     \* StreamingToolState per content-block index
    finalized,  \* the tool calls finalized in the session, in order
    executed,   \* the block indices whose tool call was dispatched
    decodeErrors, \* the block indices for which a decode error was signalled
    discarded,  \* the block indices whose accumulation was dropped at the end
    openBlock,  \* per block index, the kind of the content block the stream
                \* has started and not stopped: "none", "tool_use" or "text"
    tasks,      \* per task, the registry call it runs: its position and locals
    running,    \* the task that ran the last statement, 0 before any has run
    table,      \* the entry table of ToolRegistry._tools while tasks run on it
    providers,  \* main._providers: cache key -> provider
    request,    \* the request of the /chat/stream call: provider and API key
    pc,         \* where event_stream is: "idle", "streaming" or "closed"
    emitted,    \* the events event_stream has yielded, in order
    yielded,    \* the chunks the provider's stream has yielded, in order
    upstream    \* the provider's stream: "none", "open", "finished", "raised",
                \* "closed" (by the consumer) or "base_exception"

streamVars ==
    <<status, received, blocks, finalized, executed, decodeErrors, discarded, openBlock>>

taskVars == <<tasks, running, table>>

mainVars == <<providers, request, pc, emitted, yielded, upstream>>

vars ==
    <<tools, call, raised, ret, before, addedBy, snapshot, instance, googleLibs, arg,
      streamVars, taskVars, mainVars>>

\* The number of distinct tool names the registry scenarios draw from.
NumNames == 2

NoReturn == [py |-> "NoReturn"]
None == [py |-> "None"]

-----------------------------------------------------------------------------
(* Python dict: insertion-ordered, unique keys.                             *)

HasKey(d, k) == \E i \in 1..Len(d) : d[i].k = k

DictGet(d, k) == d[CHOOSE i \in 1..Len(d) : d[i].k = k].v

DictSet(d, k, v) ==
    IF HasKey(d, k)
    THEN [i \in 1..Len(d) |-> IF d[i].k = k THEN [k |-> k, v |-> v] ELSE d[i]]
    ELSE Append(d, [k |-> k, v |-> v])

DictDel(d, k) == SelectSeq(d, LAMBDA e : e.k # k)

DictKeys(d) == [i \in 1..Len(d) |-> d[i].k]

EmptyDict == << >>

-----------------------------------------------------------------------------
(* Tools.  A tool instance carries the three properties of BaseTool; inst   *)
(* tells apart two instances of one class.                                  *)

NamePool == <<"system", "google_calendar", "weather", "search">>

Names == {NamePool[i] : i \in 1..NumNames}

Insts == {1, 2}

Description(n) ==
    CASE n = "system" -> "Perform system operations"
      [] n = "google_calendar" -> "Interact with Google Calendar"
      [] OTHER -> "A tool"

ParametersSchema(n) ==
    CASE n = "system" ->
            [type |-> "object",
             properties |-> <<"action", "file_path", "content", "directory",
                              "pattern", "brightness", "volume", "app_name">>,
             required |-> <<"action">>]
      [] n = "google_calendar" ->
            [type |-> "object",
             properties |-> <<"action", "time_min", "time_max", "max_results",
                              "event_id", "summary", "description", "start_time",
                              "end_time", "attendees", "location", "query",
                              "calendar_id">>,
             required |-> <<"action">>]
      [] OTHER -> [type |-> "object", properties |-> << >>]

Tool(n, i) ==
    [name |-> n, description |-> Description(n),
     parameters_schema |-> ParametersSchema(n), inst |-> i]

ToolPool == {Tool(n, i) : n \in Names, i \in Insts}

-----------------------------------------------------------------------------
(* ToolRegistry.  Each method is an operator from the dict before the call  *)
(* to [raised, tools, ret].                                                 *)

register_tool_overwrite(d, tool) ==
    [raised |-> "none", tools |-> DictSet(d, tool.name, tool), ret |-> None]

register_tool_store_then_check(d, tool) ==
    IF HasKey(d, tool.name)
    THEN [raised |-> "ValueError", tools |-> DictSet(d, tool.name, tool), ret |-> NoReturn]
    ELSE [raised |-> "none", tools |-> DictSet(d, tool.name, tool), ret |-> None]

register_tool(d, tool) ==
    IF HasKey(d, tool.name)
    THEN [raised |-> "ValueError", tools |-> d, ret |-> NoReturn]
    ELSE [raised |-> "none", tools |-> DictSet(d, tool.name, tool), ret |-> None]

unregister_tool_unchecked(d, tool_name) ==
    IF HasKey(d, tool_name)
    THEN [raised |-> "none", tools |-> DictDel(d, tool_name), ret |-> None]
    ELSE [raised |-> "KeyError", tools |-> d, ret |-> NoReturn]

unregister_tool(d, tool_name) ==
    IF HasKey(d, tool_name)
    THEN [raised |-> "none", tools |-> DictDel(d, tool_name), ret |-> None]
    ELSE [raised |-> "none", tools |-> d, ret |-> None]

clear_popitem(d) ==
    [raised |-> "none", tools |-> IF d = EmptyDict THEN d ELSE SubSeq(d, 1, Len(d) - 1),
     ret |-> None]

clear(d) == [raised |-> "none", tools |-> EmptyDict, ret |-> None]

list_tools_reversed(d) ==
    [raised |-> "none", tools |-> d,
     ret |-> [i \in 1..Len(d) |-> DictKeys(d)[Len(d) + 1 - i]]]

list_tools(d) == [raised |-> "none", tools |-> d, ret |-> DictKeys(d)]

\* A dict object: ref tells which object it is, the registry's own _tools or
\* a copy of it; d is what it holds.
DictObject(ref, d) == [py |-> "dict", ref |-> ref, d |-> d]

get_all_tools_no_copy(d) ==
    [raised |-> "none", tools |-> d, ret |-> DictObject("_tools", d)]

\* self._tools.copy()
get_all_tools(d) ==
    [raised |-> "none", tools |-> d, ret |-> DictObject("copy", d)]

get_tool_schemas_name_twice(d) ==
    [raised |-> "none", tools |-> d,
     ret |-> [i \in 1..Len(d) |->
                [name |-> d[i].v.name, description |-> d[i].v.name,
                 parameters |-> d[i].v.parameters_schema]]]

get_tool_schemas(d) ==
    [raised |-> "none", tools |-> d,
     ret |-> [i \in 1..Len(d) |->
                [name |-> d[i].v.name, description |-> d[i].v.description,
                 parameters |-> d[i].v.parameters_schema]]]

get_tool_subscript(d, tool_name) ==
    IF HasKey(d, tool_name)
    THEN [raised |-> "none", tools |-> d, ret |-> DictGet(d, tool_name)]
    ELSE [raised |-> "KeyError", tools |-> d, ret |-> NoReturn]

\* self._tools.get(tool_name)
get_tool(d, tool_name) ==
    IF HasKey(d, tool_name)
    THEN [raised |-> "none", tools |-> d, ret |-> DictGet(d, tool_name)]
    ELSE [raised |-> "none", tools |-> d, ret |-> None]

-----------------------------------------------------------------------------
(* The registry as a state machine: one action per method call.             *)

\* The content-block indices of a streaming session.
BlockIndices == {0, 1}

NoBlock == [state |-> "NONE", id |-> "", name |-> "", json |-> << >>]

\* No streaming session is running.
NoStream ==
    /\ status = "idle"
    /\ received = 0
    /\ blocks = [i \in BlockIndices |-> NoBlock]
    /\ finalized = << >>
    /\ executed = {}
    /\ decodeErrors = {}
    /\ discarded = {}
    /\ openBlock = [i \in BlockIndices |-> "none"]

\* The tasks that call the registry at the same time.
Tasks == {1, 2}

IdleTask == [pc |-> "idle"]

\* No task is calling the registry.
\* The entry table of a dict: slots holds the entries in the order they were
\* inserted, a deleted one replaced by a dummy; cap is the number of slots
\* the keys object has room for (none before the first insertion).
EmptyTable == [slots |-> << >>, cap |-> 0]

NoTasks ==
    /\ tasks = [t \in Tasks |-> IdleTask]
    /\ running = 0
    /\ table = EmptyTable

NoRequest == [provider |-> "", api_key |-> << >>]

\* main.py has just been imported and serves no request.
NoMain ==
    /\ providers = << >>
    /\ request = NoRequest
    /\ pc = "idle"
    /\ emitted = << >>
    /\ yielded = << >>
    /\ upstream = "none"

\* A ToolRegistry object; id tells the objects apart.
RegistryObject(id) == [py |-> "ToolRegistry", id |-> id]

\* __new__ with an __init__ that makes a fresh _tools at every construction
ToolRegistry_new_reset(inst, d) ==
    IF inst = None
    THEN [raised |-> "none", instance |-> RegistryObject(1), tools |-> EmptyDict,
          ret |-> RegistryObject(1)]
    ELSE [raised |-> "none", instance |-> inst, tools |-> EmptyDict, ret |-> inst]

\* ToolRegistry(): __new__ makes the object and its _tools only while
\* cls._instance is None, and returns cls._instance.
ToolRegistry_new(inst, d) ==
    IF inst = None
    THEN [raised |-> "none", instance |-> RegistryObject(1), tools |-> EmptyDict,
          ret |-> RegistryObject(1)]
    ELSE [raised |-> "none", instance |-> inst, tools |-> d, ret |-> inst]

\* The module's _registry = ToolRegistry(), made when the module is imported.
ModuleRegistry == ToolRegistry_new(None, EmptyDict).ret

get_registry(d) == [raised |-> "none", tools |-> d, ret |-> ModuleRegistry]

NoTool == [name |-> "", description |-> "", parameters_schema |-> [type |-> "object"], inst |-> 0]

Init ==
    /\ tools = EmptyDict
    /\ call = [fn |-> "__new__"]
    /\ raised = "none"
    /\ ret = None
    /\ before = EmptyDict
    /\ addedBy = [n \in Names |-> NoTool]
    /\ snapshot = None
    /\ instance = RegistryObject(1)
    /\ googleLibs = TRUE
    /\ arg = None
    /\ NoStream
    /\ NoTasks
    /\ NoMain

\* The caller's dict is the registry's own dict object.
SameObject(obj) == obj.py = "dict" /\ obj.ref = "_tools"

\* What the caller's dict holds once the registry's dict is d: a change made
\* in place to _tools shows in every reference to the same object.
Follows(obj, d) == IF SameObject(obj) THEN [obj EXCEPT !.d = d] ELSE obj

Effect(r) ==
    /\ tools' = r.tools
    /\ raised' = r.raised
    /\ ret' = r.ret
    /\ before' = tools
    /\ snapshot' = Follows(snapshot, r.tools)
    /\ UNCHANGED <<instance, googleLibs, arg, streamVars, taskVars, mainVars>>

RegisterTool ==
    \E t \in ToolPool :
        /\ call' = [fn |-> "register_tool", tool |-> t]
        /\ Effect(register_tool(tools, t))
        /\ addedBy' = IF register_tool(tools, t).raised = "none"
                      THEN [addedBy EXCEPT ![t.name] = t]
                      ELSE addedBy

UnregisterTool ==
    \E n \in Names :
        /\ call' = [fn |-> "unregister_tool", tool_name |-> n]
        /\ Effect(unregister_tool(tools, n))
        /\ addedBy' = IF unregister_tool(tools, n).raised = "none"
                      THEN [addedBy EXCEPT ![n] = NoTool]
                      ELSE addedBy

Clear ==
    /\ call' = [fn |-> "clear"]
    /\ Effect(clear(tools))
    /\ addedBy' = IF clear(tools).raised = "none"
                  THEN [n \in Names |-> NoTool]
                  ELSE addedBy

ListTools ==
    /\ call' = [fn |-> "list_tools"]
    /\ Effect(list_tools(tools))
    /\ UNCHANGED addedBy

\* The names looked up: the names of the pool and one never registered.
LookupNames == Names \cup {"missing"}

GetTool ==
    \E n \in LookupNames :
        /\ call' = [fn |-> "get_tool", tool_name |-> n]
        /\ Effect(get_tool(tools, n))
        /\ UNCHANGED addedBy

GetToolSchemas ==
    /\ call' = [fn |-> "get_tool_schemas"]
    /\ Effect(get_tool_schemas(tools))
    /\ UNCHANGED addedBy

GetAllTools ==
    /\ call' = [fn |-> "get_all_tools"]
    /\ tools' = get_all_tools(tools).tools
    /\ raised' = get_all_tools(tools).raised
    /\ ret' = get_all_tools(tools).ret
    /\ snapshot' = get_all_tools(tools).ret
    /\ before' = tools
    /\ UNCHANGED <<addedBy, instance, googleLibs, arg, streamVars, taskVars, mainVars>>

\* The caller changes the dict it got from get_all_tools.
ChangeSnapshot(fn, d) ==
    /\ snapshot.py = "dict"
    /\ call' = fn
    /\ snapshot' = [snapshot EXCEPT !.d = d]
    /\ tools' = IF SameObject(snapshot) THEN d ELSE tools
    /\ raised' = "none"
    /\ ret' = None
    /\ before' = tools
    /\ UNCHANGED <<addedBy, instance, googleLibs, arg, streamVars, taskVars, mainVars>>

\* snapshot[tool.name] = tool: adds an entry or replaces one
SnapshotSetItem ==
    \E t \in ToolPool :
        ChangeSnapshot([fn |-> "snapshot_setitem", tool |-> t],
                       IF snapshot.py = "dict" THEN DictSet(snapshot.d, t.name, t)
                       ELSE EmptyDict)

\* del snapshot[name]
SnapshotDelItem ==
    \E n \in Names :
        /\ snapshot.py = "dict"
        /\ HasKey(snapshot.d, n)
        /\ ChangeSnapshot([fn |-> "snapshot_delitem", tool_name |-> n],
                          DictDel(snapshot.d, n))

Construct ==
    /\ call' = [fn |-> "ToolRegistry"]
    /\ tools' = ToolRegistry_new(instance, tools).tools
    /\ instance' = ToolRegistry_new(instance, tools).instance
    /\ raised' = ToolRegistry_new(instance, tools).raised
    /\ ret' = ToolRegistry_new(instance, tools).ret
    /\ before' = tools
    /\ snapshot' = Follows(snapshot, ToolRegistry_new(instance, tools).tools)
    /\ UNCHANGED <<addedBy, googleLibs, arg, streamVars, taskVars, mainVars>>

GetRegistry ==
    /\ call' = [fn |-> "get_registry"]
    /\ Effect(get_registry(tools))
    /\ UNCHANGED addedBy

Next ==
    \/ Construct
    \/ GetRegistry
    \/ RegisterTool
    \/ UnregisterTool
    \/ Clear
    \/ ListTools
    \/ GetTool
    \/ GetToolSchemas
    \/ GetAllTools
    \/ SnapshotSetItem
    \/ SnapshotDelItem

Spec == Init /\ [][Next]_vars

-----------------------------------------------------------------------------
(* Tool.execute.  parameters and context are dicts whose order is never     *)
(* observed: functions from the keys they hold.  What the file system, the  *)
(* subprocess or the Google API does is the environment's choice env:       *)
(* "ok" (the operation succeeds), "fail" (the failure the handler tests     *)
(* for: a missing file, a CalledProcessError, an HttpError) or "exception" *)
(* (any other exception raised inside the handler).                         *)

Return(v) == [raised |-> "none", ret |-> v]

Raise(e) == [raised |-> e, ret |-> NoReturn]

Failure(msg) == [success |-> FALSE, error |-> msg]

Success(msg) == [success |-> TRUE, result |-> [message |-> msg]]

EnvOutcomes == {"ok", "fail", "exception"}

SystemActions ==
    {"create_file", "read_file", "edit_file", "delete_file", "list_files",
     "set_brightness", "get_brightness", "set_volume", "get_volume",
     "open_app", "close_app", "list_running_apps", "activate_app"}

\* The keys a SystemTool handler tests for before it acts.
SystemRequired(action) ==
    CASE action \in {"create_file", "read_file", "delete_file"} -> {"file_path"}
      [] action = "edit_file" -> {"file_path", "content"}
      [] action = "set_brightness" -> {"brightness"}
      [] action = "set_volume" -> {"volume"}
      [] action \in {"open_app", "close_app", "activate_app"} -> {"app_name"}
      [] OTHER -> {}

SystemRequiredError(action) ==
    CASE action \in {"create_file", "read_file", "delete_file"} -> "file_path required"
      [] action = "edit_file" -> "file_path and content required"
      [] action = "set_brightness" -> "brightness required (0.0 to 1.0)"
      [] action = "set_volume" -> "volume required (0 to 100)"
      [] OTHER -> "app_name required"

\* What a SystemTool handler finds when it acts: EnvOutcomes, and for a path
\* "wrong_kind": it exists but is a directory where a file is read or
\* written, a file where a directory is listed.
SystemEnvOutcomes == EnvOutcomes \cup {"wrong_kind"}

\* The failure a handler reports itself (create_file has none: its mkdir or
\* write_text raises).
SystemFailError(action, env) ==
    CASE action = "read_file" /\ env = "wrong_kind" -> "Not a file"
      [] action = "list_files" /\ env = "wrong_kind" -> "Not a directory"
      [] action \in {"read_file", "edit_file", "delete_file"} -> "File not found"
      [] action = "list_files" -> "Directory not found"
      [] action = "set_brightness" -> "Could not set brightness"
      [] action = "get_brightness" -> "Could not get brightness"
      [] action = "set_volume" -> "Could not set volume"
      [] action = "get_volume" -> "Could not get volume"
      [] action = "open_app" -> "Could not open"
      [] action = "close_app" -> "Could not close"
      [] action = "activate_app" -> "Could not activate"
      [] OTHER -> "Could not list running apps"

\* SystemTool._create_file ... _list_running_apps
SystemHandler(action, parameters, env) ==
    IF ~(SystemRequired(action) \subseteq DOMAIN parameters)
    THEN Return(Failure(SystemRequiredError(action)))
    ELSE CASE env = "ok" -> Return(Success(action))
           [] env = "fail" ->
                IF action = "create_file" THEN Raise("OSError")
                ELSE Return(Failure(SystemFailError(action, env)))
           [] env = "wrong_kind" ->
                \* exists() passes; read_file and list_files test the kind,
                \* write_text on a directory raises, delete_file removes
                \* either kind, the other handlers touch no path
                IF action \in {"read_file", "list_files"}
                THEN Return(Failure(SystemFailError(action, env)))
                ELSE IF action \in {"create_file", "edit_file"} THEN Raise("OSError")
                ELSE Return(Success(action))
           [] OTHER ->
                \* _get_brightness wraps its whole body in a bare except
                IF action = "get_brightness"
                THEN Return(Failure(SystemFailError(action, env)))
                ELSE Raise("Exception")

SystemTool_execute(parameters, context, env) ==
    IF "action" \notin DOMAIN parameters
    THEN Raise("KeyError")
    ELSE LET action == parameters["action"] IN
         IF action \in SystemActions
         THEN LET h == SystemHandler(action, parameters, env) IN
              IF h.raised # "none"
              THEN Return(Failure("Error executing"))
              ELSE h
         ELSE Return(Failure("Unknown action"))

\* schema.get("required", [])
Required(schema) ==
    IF "required" \in DOMAIN schema THEN schema.required ELSE << >>

validate_parameters_strict(schema, parameters) ==
    /\ \A i \in 1..Len(Required(schema)) : Required(schema)[i] \in DOMAIN parameters
    /\ \A k \in DOMAIN parameters : \E i \in 1..Len(schema.properties) : schema.properties[i] = k

validate_parameters(schema, parameters) ==
    \A i \in 1..Len(Required(schema)) : Required(schema)[i] \in DOMAIN parameters

CalendarActions ==
    {"list_events", "create_event", "update_event", "delete_event", "search_events"}

\* GoogleCalendarTool._list_events ... _search_events
CalendarHandler(action, parameters, env) ==
    IF action \in {"update_event", "delete_event"} /\ "event_id" \notin DOMAIN parameters
    THEN Return(Failure("event_id required"))
    ELSE IF action = "create_event"
              /\ ~({"summary", "start_time", "end_time"} \subseteq DOMAIN parameters)
    THEN Raise("KeyError")
    ELSE CASE env = "ok" -> Return(Success(action))
           [] env = "fail" -> Raise("HttpError")
           [] OTHER -> Raise("Exception")

\* context is None or a dict
Truthy(context) == context.py = "dict" /\ DOMAIN context.d # {}

GoogleCalendarTool_execute(parameters, context, env, libs) ==
    IF ~Truthy(context) \/ "google_access_token" \notin DOMAIN context.d
    THEN Return(Failure("Google access token required in context"))
    ELSE IF ~validate_parameters(ParametersSchema("google_calendar"), parameters)
    THEN Return(Failure("Invalid parameters"))
    ELSE LET action == parameters["action"] IN
         IF ~libs
         \* Credentials is unbound: NameError inside the try; matching it
         \* against "except HttpError" evaluates the unbound HttpError
         THEN Raise("NameError")
         ELSE IF action \in CalendarActions
         THEN LET h == CalendarHandler(action, parameters, env) IN
              CASE h.raised = "none" -> h
                [] h.raised = "HttpError" -> Return(Failure("Google Calendar API error"))
                [] OTHER -> Return(Failure("Unexpected error"))
         ELSE Return(Failure("Unknown action"))

(* The inputs of execute.                                                   *)

PyDict(keys) == [k \in keys |-> "v"]

WithAction(a, keys) == ("action" :> a) @@ PyDict(keys)

\* For each action: every subset of the keys its handler tests for, with
\* and without a key the schema does not declare; and dicts without 'action'.
SystemParameters ==
    {PyDict(K) : K \in SUBSET {"file_path", "extra"}}
        \cup UNION {{WithAction(a, K) : K \in SUBSET (SystemRequired(a) \cup {"extra"})} :
                        a \in SystemActions \cup {"unknown"}}

CalendarParameters ==
    LET Keys == {{}, {"event_id"}, {"summary"}, {"summary", "start_time", "end_time"}} IN
    {PyDict(K) : K \in Keys}
        \cup {WithAction(a, K) : a \in CalendarActions \cup {"unknown"}, K \in Keys}

Contexts ==
    {None} \cup {[py |-> "dict", d |-> PyDict(K)] :
                    K \in {{}, {"user_id"}, {"google_access_token"}}}

InitExec ==
    /\ tools = EmptyDict
    /\ call = [fn |-> "__init__"]
    /\ raised = "none"
    /\ ret = None
    /\ before = EmptyDict
    /\ addedBy = [n \in Names |-> NoTool]
    /\ snapshot = None
    /\ instance = RegistryObject(1)
    /\ googleLibs \in BOOLEAN
    /\ arg = None
    /\ NoStream
    /\ NoTasks
    /\ NoMain

ExecEffect(r) ==
    /\ raised' = r.raised
    /\ ret' = r.ret
    /\ UNCHANGED <<tools, before, addedBy, snapshot, instance, googleLibs, arg,
                   streamVars, taskVars, mainVars>>

ExecuteSystem ==
    \E p \in SystemParameters, c \in Contexts, e \in SystemEnvOutcomes :
        /\ call' = [fn |-> "execute", tool |-> "system", parameters |-> p,
                    context |-> c, env |-> e]
        /\ ExecEffect(SystemTool_execute(p, c, e))

ExecuteCalendar ==
    \E p \in CalendarParameters, c \in Contexts, e \in EnvOutcomes :
        /\ call' = [fn |-> "execute", tool |-> "google_calendar", parameters |-> p,
                    context |-> c, env |-> e]
        /\ ExecEffect(GoogleCalendarTool_execute(p, c, e, googleLibs))

NextExec == ExecuteSystem \/ ExecuteCalendar

SpecExec == InitExec /\ [][NextExec]_vars

(* BaseTool.validate_parameters on its own: the schema of a tool and a      *)
(* parameters dict are drawn, and the method is applied to them.            *)

\* The schemas of the tools, one with two required names and one with an
\* empty required list.
Schemas ==
    {ParametersSchema(n) : n \in {"system", "google_calendar", "weather"}}
        \cup {[type |-> "object", properties |-> <<"location", "units", "lang">>,
               required |-> <<"location", "units">>],
              [type |-> "object", properties |-> <<"location">>, required |-> << >>]}

ValidateInputs ==
    {[kind |-> "validate_parameters",
      v |-> [schema |-> sc, parameters |-> PyDict(K)]] :
        sc \in Schemas, K \in SUBSET {"action", "location", "units", "extra"}}

InitValidate ==
    /\ tools = EmptyDict
    /\ call = [fn |-> "__init__"]
    /\ raised = "none"
    /\ ret = None
    /\ before = EmptyDict
    /\ addedBy = [n \in Names |-> NoTool]
    /\ snapshot = None
    /\ instance = RegistryObject(1)
    /\ googleLibs = TRUE
    /\ arg \in ValidateInputs
    /\ NoStream
    /\ NoTasks
    /\ NoMain

ValidateParameters ==
    /\ call.fn = "__init__"
    /\ call' = [fn |-> "validate_parameters"]
    /\ ExecEffect(Return(validate_parameters(arg.v.schema, arg.v.parameters)))

NextValidate == ValidateParameters

SpecValidate == InitValidate /\ [][NextValidate]_vars

-----------------------------------------------------------------------------
(* JSON.  A JSON text is a sequence of tokens: the punctuation { } [ ] : ,  *)
(* the blank, number, quoted-string, true and null literals, and anything   *)
(* else (a token no JSON text holds).  A JSON value is a record             *)
(* [t, n, s, m]: t its type, n the number or truth value, s the string, m   *)
(* the members of an object (a dict of [k, v]) or the items of an array.    *)

JNull == [t |-> "null", n |-> 0, s |-> "", m |-> << >>]
JNum(n) == [t |-> "num", n |-> n, s |-> "", m |-> << >>]
JStr(s) == [t |-> "str", n |-> 0, s |-> s, m |-> << >>]
JTrue == [t |-> "bool", n |-> 1, s |-> "", m |-> << >>]
JObj(members) == [t |-> "obj", n |-> 0, s |-> "", m |-> members]
JArr(items) == [t |-> "arr", n |-> 0, s |-> "", m |-> items]

Strs == {"q", "cats", "ok", "a"}

Quote(s) ==
    CASE s = "q" -> "\"q\""
      [] s = "cats" -> "\"cats\""
      [] s = "ok" -> "\"ok\""
      [] OTHER -> "\"a\""

IsStrTok(tok) == \E s \in Strs : Quote(s) = tok

Unquote(tok) == CHOOSE s \in Strs : Quote(s) = tok

NumTok(n) == IF n = 1 THEN "1" ELSE "2"

IsNumTok(tok) == tok \in {"1", "2"}

NumOf(tok) == IF tok = "1" THEN 1 ELSE 2

RECURSIVE SkipWs(_, _)
SkipWs(toks, i) ==
    IF i <= Len(toks) /\ toks[i] = " " THEN SkipWs(toks, i + 1) ELSE i

ParseFail == [ok |-> FALSE, v |-> JNull, pos |-> 0]

ParseOk(v, pos) == [ok |-> TRUE, v |-> v, pos |-> pos]

RECURSIVE ParseValue(_, _)
RECURSIVE ParseMembers(_, _, _)
RECURSIVE ParseItems(_, _, _)

\* json.decoder.JSONObject: the members after "{", up to the closing "}"
ParseMembers(toks, i, acc) ==
    IF i > Len(toks) \/ ~IsStrTok(toks[i]) THEN ParseFail
    ELSE LET c == SkipWs(toks, i + 1) IN
         IF c > Len(toks) \/ toks[c] # ":" THEN ParseFail
         ELSE LET r == ParseValue(toks, c + 1) IN
              IF ~r.ok THEN ParseFail
              ELSE LET e == SkipWs(toks, r.pos)
                       acc2 == DictSet(acc, Unquote(toks[i]), r.v)
                   IN  IF e > Len(toks) THEN ParseFail
                       ELSE IF toks[e] = "}" THEN ParseOk(JObj(acc2), e + 1)
                       ELSE IF toks[e] = ","
                            THEN ParseMembers(toks, SkipWs(toks, e + 1), acc2)
                            ELSE ParseFail

\* json.decoder.JSONArray: the items after "[", up to the closing "]"
ParseItems(toks, i, acc) ==
    LET r == ParseValue(toks, i) IN
    IF ~r.ok THEN ParseFail
    ELSE LET e == SkipWs(toks, r.pos) IN
         IF e > Len(toks) THEN ParseFail
         ELSE IF toks[e] = "]" THEN ParseOk(JArr(Append(acc, r.v)), e + 1)
         ELSE IF toks[e] = "," THEN ParseItems(toks, e + 1, Append(acc, r.v))
         ELSE ParseFail

\* json.scanner: one value starting at or after position i0
ParseValue(toks, i0) ==
    LET i == SkipWs(toks, i0) IN
    IF i > Len(toks) THEN ParseFail
    ELSE LET tok == toks[i] IN
         CASE IsNumTok(tok) -> ParseOk(JNum(NumOf(tok)), i + 1)
           [] IsStrTok(tok) -> ParseOk(JStr(Unquote(tok)), i + 1)
           [] tok = "true" -> ParseOk(JTrue, i + 1)
           [] tok = "null" -> ParseOk(JNull, i + 1)
           [] tok = "{" ->
                LET j == SkipWs(toks, i + 1) IN
                IF j <= Len(toks) /\ toks[j] = "}"
                THEN ParseOk(JObj(EmptyDict), j + 1)
                ELSE ParseMembers(toks, j, EmptyDict)
           [] tok = "[" ->
                LET j == SkipWs(toks, i + 1) IN
                IF j <= Len(toks) /\ toks[j] = "]"
                THEN ParseOk(JArr(<< >>), j + 1)
                ELSE ParseItems(toks, i + 1, << >>)
           [] OTHER -> ParseFail

\* json.loads of a str: the value, or JSONDecodeError (nothing to decode, a
\* malformed value, or data after the value)
json_loads(toks) ==
    LET r == ParseValue(toks, 1) IN
    IF r.ok /\ SkipWs(toks, r.pos) > Len(toks)
    THEN [raised |-> "none", ret |-> r.v]
    ELSE [raised |-> "JSONDecodeError", ret |-> NoReturn]

RECURSIVE json_dumps(_)
RECURSIVE DumpMembers(_, _)
RECURSIVE DumpItems(_, _)

DumpMembers(m, i) ==
    IF i > Len(m) THEN << >>
    ELSE (IF i > 1 THEN <<",", " ">> ELSE << >>)
            \o <<Quote(m[i].k), ":", " ">> \o json_dumps(m[i].v) \o DumpMembers(m, i + 1)

DumpItems(m, i) ==
    IF i > Len(m) THEN << >>
    ELSE (IF i > 1 THEN <<",", " ">> ELSE << >>)
            \o json_dumps(m[i]) \o DumpItems(m, i + 1)

\* json.dumps with the default separators (", " and ": ")
json_dumps(v) ==
    CASE v.t = "num" -> <<NumTok(v.n)>>
      [] v.t = "str" -> <<Quote(v.s)>>
      [] v.t = "bool" -> <<"true">>
      [] v.t = "null" -> <<"null">>
      [] v.t = "obj" -> <<"{">> \o DumpMembers(v.m, 1) \o <<"}">>
      [] OTHER -> <<"[">> \o DumpItems(v.m, 1) \o <<"]">>

-----------------------------------------------------------------------------
(* The adapters.  A provider response is an object: a function from the     *)
(* attributes it has; an attribute that may hold None or a list holds None  *)
(* or PyList(items).  A standardized tool call, a formatted tool and a      *)
(* formatted result are dicts with fixed keys: records.                     *)

\* The longest list (of tool calls, content blocks, tools, results) drawn.
MaxCalls == 2

PyList(items) == [py |-> "list", items |-> items]

\* result.get(key, default) on a dict held as a function
Get(d, key, default) == IF key \in DOMAIN d THEN d[key] ELSE default

RECURSIVE OpenAIToolCallsFrom(_, _, _)
\* the loop of parse_tool_calls from item i on; skipBad is FALSE in the code
OpenAIToolCallsFrom(items, i, skipBad) ==
    IF i > Len(items) THEN << >>
    ELSE LET tool_call == items[i]
             loaded == json_loads(tool_call.function.arguments)
             arguments == IF loaded.raised = "JSONDecodeError"
                          THEN JObj(EmptyDict)
                          ELSE loaded.ret
             rest == OpenAIToolCallsFrom(items, i + 1, skipBad)
         IN  IF skipBad /\ loaded.raised # "none"
             THEN rest
             ELSE <<[id |-> tool_call.id,
                     tool_name |-> tool_call.function.name,
                     parameters |-> arguments]>> \o rest

OpenAIAdapter_parse_tool_calls_skip_bad(response) ==
    IF "choices" \notin DOMAIN response THEN Return(<< >>)
    ELSE IF response.choices.py = "None" THEN Raise("TypeError")
    ELSE IF Len(response.choices.items) = 0 THEN Return(<< >>)
    ELSE IF "message" \notin DOMAIN response.choices.items[1] THEN Raise("AttributeError")
    ELSE LET message == response.choices.items[1].message IN
         IF "tool_calls" \notin DOMAIN message \/ message.tool_calls.py = "None"
         THEN Return(<< >>)
         ELSE Return(OpenAIToolCallsFrom(message.tool_calls.items, 1, TRUE))

OpenAIAdapter_parse_tool_calls_no_none_check(response) ==
    IF "choices" \notin DOMAIN response THEN Return(<< >>)
    ELSE IF response.choices.py = "None" THEN Raise("TypeError")
    ELSE IF Len(response.choices.items) = 0 THEN Return(<< >>)
    ELSE IF "message" \notin DOMAIN response.choices.items[1] THEN Raise("AttributeError")
    ELSE LET message == response.choices.items[1].message IN
         IF "tool_calls" \notin DOMAIN message
         THEN Return(<< >>)
         ELSE IF message.tool_calls.py = "None" THEN Raise("TypeError")
         ELSE Return(OpenAIToolCallsFrom(message.tool_calls.items, 1, FALSE))

OpenAIAdapter_parse_tool_calls(response) ==
    IF "choices" \notin DOMAIN response THEN Return(<< >>)
    \* len(response.choices) of None
    ELSE IF response.choices.py = "None" THEN Raise("TypeError")
    ELSE IF Len(response.choices.items) = 0 THEN Return(<< >>)
    \* response.choices[0].message is read without a presence check
    ELSE IF "message" \notin DOMAIN response.choices.items[1] THEN Raise("AttributeError")
    ELSE LET message == response.choices.items[1].message IN
         IF "tool_calls" \notin DOMAIN message \/ message.tool_calls.py = "None"
         THEN Return(<< >>)
         ELSE Return(OpenAIToolCallsFrom(message.tool_calls.items, 1, FALSE))

IsToolUse(block) == "type" \in DOMAIN block /\ block.type = "tool_use"

RECURSIVE AnthropicToolCallsFrom(_, _, _)
\* the loop of parse_tool_calls from block i on; prepend is FALSE in the code
AnthropicToolCallsFrom(content, i, prepend) ==
    IF i > Len(content) THEN << >>
    ELSE LET block == content[i]
             rest == AnthropicToolCallsFrom(content, i + 1, prepend)
             one == <<[id |-> block.id, tool_name |-> block.name,
                       parameters |-> block.input]>>
         IN  IF IsToolUse(block)
             THEN IF prepend THEN rest \o one ELSE one \o rest
             ELSE rest

\* a tool_use block read for an attribute it does not have
LacksAttribute(content) ==
    \E i \in 1..Len(content) :
        IsToolUse(content[i]) /\ ~({"id", "name", "input"} \subseteq DOMAIN content[i])

AnthropicAdapter_parse_tool_calls_prepend(response) ==
    IF "content" \notin DOMAIN response THEN Return(<< >>)
    ELSE IF response.content.py = "None" THEN Raise("TypeError")
    ELSE IF LacksAttribute(response.content.items) THEN Raise("AttributeError")
    ELSE Return(AnthropicToolCallsFrom(response.content.items, 1, TRUE))

AnthropicAdapter_parse_tool_calls(response) ==
    IF "content" \notin DOMAIN response THEN Return(<< >>)
    \* for block in response.content, of None
    ELSE IF response.content.py = "None" THEN Raise("TypeError")
    ELSE IF LacksAttribute(response.content.items) THEN Raise("AttributeError")
    ELSE Return(AnthropicToolCallsFrom(response.content.items, 1, FALSE))

OpenAIAdapter_format_tools_swapped(tool_list) ==
    Return([i \in 1..Len(tool_list) |->
              [type |-> "function",
               function |-> [name |-> tool_list[i].description,
                             description |-> tool_list[i].name,
                             parameters |-> tool_list[i].parameters_schema]]])

OpenAIAdapter_format_tools(tool_list) ==
    Return([i \in 1..Len(tool_list) |->
              [type |-> "function",
               function |-> [name |-> tool_list[i].name,
                             description |-> tool_list[i].description,
                             parameters |-> tool_list[i].parameters_schema]]])

AnthropicAdapter_format_tools(tool_list) ==
    Return([i \in 1..Len(tool_list) |->
              [name |-> tool_list[i].name,
               description |-> tool_list[i].description,
               input_schema |-> tool_list[i].parameters_schema]])

OpenAIAdapter_format_tool_results_id_required(tool_results) ==
    IF \E i \in 1..Len(tool_results) : "tool_call_id" \notin DOMAIN tool_results[i]
    THEN Raise("KeyError")
    ELSE Return([i \in 1..Len(tool_results) |->
              [role |-> "tool",
               tool_call_id |-> tool_results[i]["tool_call_id"],
               content |-> json_dumps(Get(tool_results[i], "result", JObj(EmptyDict)))]])

OpenAIAdapter_format_tool_results(tool_results) ==
    Return([i \in 1..Len(tool_results) |->
              [role |-> "tool",
               tool_call_id |-> Get(tool_results[i], "tool_call_id", ""),
               content |-> json_dumps(Get(tool_results[i], "result", JObj(EmptyDict)))]])

AnthropicAdapter_format_tool_results(tool_results) ==
    Return([i \in 1..Len(tool_results) |->
              [type |-> "tool_result",
               tool_use_id |-> Get(tool_results[i], "tool_call_id", ""),
               content |-> json_dumps(Get(tool_results[i], "result", JObj(EmptyDict)))]])

AnthropicAdapter_create_tool_result_message(tool_results) ==
    Return([role |-> "user",
            content |-> AnthropicAdapter_format_tool_results(tool_results).ret])

\* The fragment of an event that is not part of a tool call: {}.
EmptyFragment == [k \in {} |-> ""]

AttrOr(obj, attr, default) == IF attr \in DOMAIN obj THEN obj[attr] ELSE default

parse_streaming_tool_use_stop_in_delta(event) ==
    IF "type" \notin DOMAIN event THEN EmptyFragment
    ELSE IF event.type = "content_block_start"
    THEN IF "content_block" \in DOMAIN event /\ IsToolUse(event.content_block)
         THEN [event |-> "tool_use_start",
               id |-> AttrOr(event.content_block, "id", None),
               name |-> AttrOr(event.content_block, "name", None)]
         ELSE EmptyFragment
    ELSE IF event.type = "content_block_delta"
    THEN IF /\ "delta" \in DOMAIN event
            /\ "type" \in DOMAIN event.delta
            /\ event.delta.type = "input_json_delta"
         THEN [event |-> "tool_use_delta",
               partial_json |-> AttrOr(event.delta, "partial_json", << >>)]
         ELSE [event |-> "tool_use_stop"]
    ELSE IF event.type = "content_block_stop"
    THEN [event |-> "tool_use_stop"]
    ELSE EmptyFragment

parse_streaming_tool_use_drop_fragment(event) ==
    IF "type" \notin DOMAIN event THEN EmptyFragment
    ELSE IF event.type = "content_block_start"
    THEN IF "content_block" \in DOMAIN event /\ IsToolUse(event.content_block)
         THEN [event |-> "tool_use_start",
               id |-> AttrOr(event.content_block, "id", None),
               name |-> AttrOr(event.content_block, "name", None)]
         ELSE EmptyFragment
    ELSE IF event.type = "content_block_delta"
    THEN IF /\ "delta" \in DOMAIN event
            /\ "type" \in DOMAIN event.delta
            /\ event.delta.type = "input_json_delta"
         THEN [event |-> "tool_use_delta",
               partial_json |-> AttrOr(event.delta, "text", << >>)]
         ELSE EmptyFragment
    ELSE IF event.type = "content_block_stop"
    THEN [event |-> "tool_use_stop"]
    ELSE EmptyFragment

parse_streaming_tool_use_no_stop(event) ==
    IF "type" \notin DOMAIN event THEN EmptyFragment
    ELSE IF event.type = "content_block_start"
    THEN IF "content_block" \in DOMAIN event /\ IsToolUse(event.content_block)
         THEN [event |-> "tool_use_start",
               id |-> AttrOr(event.content_block, "id", None),
               name |-> AttrOr(event.content_block, "name", None)]
         ELSE EmptyFragment
    ELSE IF event.type = "content_block_delta"
    THEN IF /\ "delta" \in DOMAIN event
            /\ "type" \in DOMAIN event.delta
            /\ event.delta.type = "input_json_delta"
         THEN [event |-> "tool_use_delta",
               partial_json |-> AttrOr(event.delta, "partial_json", << >>)]
         ELSE EmptyFragment
    ELSE EmptyFragment

parse_streaming_tool_use_any_start(event) ==
    IF "type" \notin DOMAIN event THEN EmptyFragment
    ELSE IF event.type = "content_block_start"
    THEN IF "content_block" \in DOMAIN event
         THEN [event |-> "tool_use_start",
               id |-> AttrOr(event.content_block, "id", None),
               name |-> AttrOr(event.content_block, "name", None)]
         ELSE EmptyFragment
    ELSE IF event.type = "content_block_delta"
    THEN IF /\ "delta" \in DOMAIN event
            /\ "type" \in DOMAIN event.delta
            /\ event.delta.type = "input_json_delta"
         THEN [event |-> "tool_use_delta",
               partial_json |-> AttrOr(event.delta, "partial_json", << >>)]
         ELSE EmptyFragment
    ELSE IF event.type = "content_block_stop"
    THEN [event |-> "tool_use_stop"]
    ELSE EmptyFragment

parse_streaming_tool_use_any_delta(event) ==
    IF "type" \notin DOMAIN event THEN EmptyFragment
    ELSE IF event.type = "content_block_start"
    THEN IF "content_block" \in DOMAIN event /\ IsToolUse(event.content_block)
         THEN [event |-> "tool_use_start",
               id |-> AttrOr(event.content_block, "id", None),
               name |-> AttrOr(event.content_block, "name", None)]
         ELSE EmptyFragment
    ELSE IF event.type = "content_block_delta"
    THEN IF "delta" \in DOMAIN event
         THEN [event |-> "tool_use_delta",
               partial_json |-> AttrOr(event.delta, "partial_json", << >>)]
         ELSE EmptyFragment
    ELSE IF event.type = "content_block_stop"
    THEN [event |-> "tool_use_stop"]
    ELSE EmptyFragment

parse_streaming_tool_use(event) ==
    IF "type" \notin DOMAIN event THEN EmptyFragment
    ELSE IF event.type = "content_block_start"
    THEN IF "content_block" \in DOMAIN event /\ IsToolUse(event.content_block)
         THEN [event |-> "tool_use_start",
               id |-> AttrOr(event.content_block, "id", None),
               name |-> AttrOr(event.content_block, "name", None)]
         ELSE EmptyFragment
    ELSE IF event.type = "content_block_delta"
    THEN IF /\ "delta" \in DOMAIN event
            /\ "type" \in DOMAIN event.delta
            /\ event.delta.type = "input_json_delta"
         THEN [event |-> "tool_use_delta",
               partial_json |-> AttrOr(event.delta, "partial_json", << >>)]
         ELSE EmptyFragment
    ELSE IF event.type = "content_block_stop"
    THEN [event |-> "tool_use_stop"]
    ELSE EmptyFragment

\* A str object.  The attributes of a partial tool call hold a str or None.
PyStr(s) == [py |-> "str", s |-> s]

\* hasattr(obj, attr) and obj.attr, for an attribute that holds a str or
\* None and whose empty value is empty
HasTruthy(obj, attr, empty) ==
    /\ attr \in DOMAIN obj
    /\ obj[attr].py = "str"
    /\ obj[attr].s # empty

\* function_data of one partial tool call
OpenAIFunctionData(function) ==
    (IF HasTruthy(function, "name", "") THEN "name" :> function.name ELSE EmptyFragment)
        @@ (IF HasTruthy(function, "arguments", << >>)
            THEN "arguments" :> function.arguments ELSE EmptyFragment)

\* call_data of one partial tool call
OpenAICallData(tool_call) ==
    ("index" :> (IF "index" \in DOMAIN tool_call THEN tool_call.index ELSE 0))
        @@ (IF HasTruthy(tool_call, "id", "") THEN "id" :> tool_call.id ELSE EmptyFragment)
        @@ (IF "function" \in DOMAIN tool_call
            THEN "function" :> OpenAIFunctionData(tool_call.function) ELSE EmptyFragment)

OpenAIAdapter_parse_streaming_tool_calls(delta) ==
    IF "tool_calls" \notin DOMAIN delta \/ delta.tool_calls = None
    THEN Return(EmptyFragment)
    ELSE Return([tool_calls |->
                    [i \in 1..Len(delta.tool_calls.items) |->
                        OpenAICallData(delta.tool_calls.items[i])]])

(* The inputs of the adapters.                                              *)

CallIds == <<"call_1", "call_2", "call_3", "call_4">>

\* the function name of the i-th tool call, the name of the i-th block
CallName(i) == IF i % 2 = 1 THEN "system" ELSE "google_calendar"

ArgCats == <<"{", "\"q\"", ":", " ", "\"cats\"", "}">>
ArgEmpty == <<"{", "}">>
ArgBad == <<"{", "bad", " ", "json">>
ArgCut == <<"{", "\"q\"", ":">>
ArgNumber == <<"1">>
ArgNested == <<"{", "\"a\"", ":", " ", "[", "1", ",", " ", "null", "]", "}">>

ArgStrings == {ArgCats, ArgEmpty, ArgBad, ArgCut, ArgNumber, ArgNested}

ObjCats == JObj(<<[k |-> "q", v |-> JStr("cats")]>>)
ObjOk == JObj(<<[k |-> "ok", v |-> JTrue]>>)
ObjNested == JObj(<<[k |-> "a", v |-> JArr(<<JNum(1), JNull>>)]>>)

OpenAIToolCall(i, arguments) ==
    [id |-> CallIds[i], type |-> "function",
     function |-> [name |-> CallName(i), arguments |-> arguments]]

OpenAIToolCallLists ==
    UNION {{[i \in 1..k |-> OpenAIToolCall(i, f[i])] : f \in [1..k -> ArgStrings]} :
              k \in 0..MaxCalls}

OpenAIResponseOf(message) == [id |-> "chatcmpl", choices |-> PyList(<<[index |-> 0, message |-> message]>>)]

OpenAIResponses ==
    {[id |-> "chatcmpl"],
     [id |-> "chatcmpl", choices |-> None],
     [id |-> "chatcmpl", choices |-> PyList(<< >>)],
     [id |-> "chatcmpl", choices |-> PyList(<<[index |-> 0]>>)],
     OpenAIResponseOf([role |-> "assistant", content |-> "text"]),
     OpenAIResponseOf([role |-> "assistant", content |-> "text", tool_calls |-> None])}
        \cup {OpenAIResponseOf([role |-> "assistant", tool_calls |-> PyList(l)]) :
                 l \in OpenAIToolCallLists}

BlockKinds == {"text", "untyped", "tool_use_empty", "tool_use_cats", "tool_use_no_id"}

Block(i, kind) ==
    CASE kind = "text" -> [type |-> "text", text |-> "hello"]
      [] kind = "untyped" -> [text |-> "hello"]
      [] kind = "tool_use_empty" ->
            [type |-> "tool_use", id |-> CallIds[i], name |-> CallName(i),
             input |-> JObj(EmptyDict)]
      [] kind = "tool_use_cats" ->
            [type |-> "tool_use", id |-> CallIds[i], name |-> CallName(i),
             input |-> ObjCats]
      [] OTHER -> [type |-> "tool_use", name |-> CallName(i), input |-> ObjCats]

AnthropicResponses ==
    {[id |-> "msg"], [id |-> "msg", content |-> None]}
        \cup UNION {{[id |-> "msg", content |-> PyList([i \in 1..k |-> Block(i, f[i])])] :
                        f \in [1..k -> BlockKinds]} : k \in 0..MaxCalls}

ToolLists == UNION {[1..k -> {Tool(n, 1) : n \in Names}] : k \in 0..MaxCalls}

ResultKinds == {"plain", "ok", "empty", "nested", "no_id", "no_id_no_result", "no_result"}

ToolResult(i, kind) ==
    LET base == [tool_name |-> CallName(i)]
        id == "tool_call_id" :> CallIds[i]
    IN  CASE kind = "plain" -> base @@ id @@ ("result" :> ObjCats)
          [] kind = "ok" -> base @@ id @@ ("result" :> ObjOk)
          [] kind = "empty" -> base @@ id @@ ("result" :> JObj(EmptyDict))
          [] kind = "nested" -> base @@ id @@ ("result" :> ObjNested)
          [] kind = "no_id" -> base @@ ("result" :> ObjOk)
          [] kind = "no_id_no_result" -> base
          [] OTHER -> base @@ id

ToolResultLists ==
    UNION {{[i \in 1..k |-> ToolResult(i, f[i])] : f \in [1..k -> ResultKinds]} :
              k \in 0..MaxCalls}

\* The events of an Anthropic stream.

FragmentOpen == <<"{", "\"q\"", ":">>
FragmentClose == <<"\"cats\"", "}">>
FragmentWhole == <<"{", "}">>

BlockStart(i, kind) ==
    [type |-> "content_block_start", index |-> i,
     content_block |-> IF kind = "tool_use"
                       THEN [type |-> "tool_use", id |-> CallIds[i + 1],
                             name |-> CallName(i + 1), input |-> JObj(EmptyDict)]
                       ELSE [type |-> "text", text |-> ""]]

BlockDelta(i, delta) == [type |-> "content_block_delta", index |-> i, delta |-> delta]

BlockStop(i) == [type |-> "content_block_stop", index |-> i]

StreamEvents ==
    {BlockStart(i, k) : i \in BlockIndices, k \in {"tool_use", "text"}}
        \cup {BlockDelta(i, [type |-> "input_json_delta", partial_json |-> f]) :
                 i \in BlockIndices, f \in {FragmentOpen, FragmentClose, FragmentWhole}}
        \cup {BlockDelta(i, [type |-> "text_delta", text |-> "hello"]) : i \in BlockIndices}
        \cup {BlockStop(i) : i \in BlockIndices}
        \cup {[type |-> "message_delta"], [id |-> "untyped"]}

\* Events of other shapes: an attribute the decoder tests for is missing.
OddEvents ==
    {[type |-> "content_block_start", index |-> 0],
     [type |-> "content_block_start", index |-> 0,
      content_block |-> [id |-> CallIds[1], name |-> CallName(1)]],
     [type |-> "content_block_start", index |-> 0, content_block |-> [type |-> "tool_use"]],
     [type |-> "content_block_start", index |-> 0,
      content_block |-> [type |-> "tool_use", id |-> CallIds[1]]],
     [type |-> "content_block_delta", index |-> 0],
     [type |-> "content_block_delta", index |-> 0, delta |-> [partial_json |-> FragmentWhole]],
     [type |-> "content_block_delta", index |-> 0, delta |-> [type |-> "input_json_delta"]],
     [type |-> "content_block_stop"],
     [type |-> "message_start"], [type |-> "message_stop"], [type |-> "ping"],
     [index |-> 0, content_block |-> [type |-> "tool_use", id |-> CallIds[1],
                                      name |-> CallName(1)]]}

AnthropicEvents == StreamEvents \cup OddEvents

\* The partial tool calls of an OpenAI stream: the first chunk of a call
\* (index, id, name, empty arguments), a later chunk (index and a piece of the
\* arguments, id and name None), and chunks that lack attributes.
PartialKinds == {"first", "next", "no_index", "bare", "function_none"}

PartialToolCall(i, kind) ==
    CASE kind = "first" ->
            [index |-> i - 1, id |-> PyStr(CallIds[i]), type |-> PyStr("function"),
             function |-> [name |-> PyStr(CallName(i)), arguments |-> PyStr(<< >>)]]
      [] kind = "next" ->
            [index |-> i - 1, id |-> None, type |-> None,
             function |-> [name |-> None, arguments |-> PyStr(ArgCut)]]
      [] kind = "no_index" ->
            [id |-> PyStr(CallIds[i]),
             function |-> [name |-> PyStr(CallName(i)), arguments |-> PyStr(ArgCut)]]
      [] kind = "bare" -> [index |-> i - 1]
      [] OTHER -> [index |-> i - 1, function |-> None]

OpenAIDeltas ==
    {[content |-> PyStr("hello")], [content |-> None, tool_calls |-> None]}
        \cup {[content |-> None,
               tool_calls |-> PyList([i \in 1..k |-> PartialToolCall(i, kinds[i])])] :
                 kinds \in [1..MaxCalls -> PartialKinds], k \in 0..MaxCalls}

AdapterInputs ==
    {[kind |-> "openai_response", v |-> x] : x \in OpenAIResponses}
        \cup {[kind |-> "anthropic_response", v |-> x] : x \in AnthropicResponses}
        \cup {[kind |-> "tools", v |-> PyList(x)] : x \in ToolLists}
        \cup {[kind |-> "tool_results", v |-> PyList(x)] : x \in ToolResultLists}
        \cup {[kind |-> "anthropic_event", v |-> x] : x \in AnthropicEvents}
        \cup {[kind |-> "openai_delta", v |-> x] : x \in OpenAIDeltas}

InitAdapter ==
    /\ tools = EmptyDict
    /\ call = [fn |-> "__init__"]
    /\ raised = "none"
    /\ ret = None
    /\ before = EmptyDict
    /\ addedBy = [n \in Names |-> NoTool]
    /\ snapshot = None
    /\ instance = RegistryObject(1)
    /\ googleLibs = TRUE
    /\ arg \in AdapterInputs
    /\ NoStream
    /\ NoTasks
    /\ NoMain

Apply(fn, adapter, kind, r) ==
    /\ arg.kind = kind
    /\ call' = [fn |-> fn, adapter |-> adapter]
    /\ raised' = r.raised
    /\ ret' = r.ret
    /\ UNCHANGED <<tools, before, addedBy, snapshot, instance, googleLibs, arg,
                   streamVars, taskVars, mainVars>>

OpenAIParseToolCalls ==
    Apply("parse_tool_calls", "openai", "openai_response",
          IF arg.kind = "openai_response"
          THEN OpenAIAdapter_parse_tool_calls(arg.v) ELSE Return(None))

AnthropicParseToolCalls ==
    Apply("parse_tool_calls", "anthropic", "anthropic_response",
          IF arg.kind = "anthropic_response"
          THEN AnthropicAdapter_parse_tool_calls(arg.v) ELSE Return(None))

OpenAIFormatTools ==
    Apply("format_tools", "openai", "tools",
          IF arg.kind = "tools" THEN OpenAIAdapter_format_tools(arg.v.items) ELSE Return(None))

AnthropicFormatTools ==
    Apply("format_tools", "anthropic", "tools",
          IF arg.kind = "tools" THEN AnthropicAdapter_format_tools(arg.v.items) ELSE Return(None))

OpenAIFormatToolResults ==
    Apply("format_tool_results", "openai", "tool_results",
          IF arg.kind = "tool_results"
          THEN OpenAIAdapter_format_tool_results(arg.v.items) ELSE Return(None))

AnthropicFormatToolResults ==
    Apply("format_tool_results", "anthropic", "tool_results",
          IF arg.kind = "tool_results"
          THEN AnthropicAdapter_format_tool_results(arg.v.items) ELSE Return(None))

AnthropicCreateToolResultMessage ==
    Apply("create_tool_result_message", "anthropic", "tool_results",
          IF arg.kind = "tool_results"
          THEN AnthropicAdapter_create_tool_result_message(arg.v.items) ELSE Return(None))

AnthropicParseStreamingToolUse ==
    Apply("parse_streaming_tool_use", "anthropic", "anthropic_event",
          IF arg.kind = "anthropic_event"
          THEN Return(parse_streaming_tool_use(arg.v)) ELSE Return(None))

OpenAIParseStreamingToolCalls ==
    Apply("parse_streaming_tool_calls", "openai", "openai_delta",
          IF arg.kind = "openai_delta"
          THEN OpenAIAdapter_parse_streaming_tool_calls(arg.v) ELSE Return(None))

NextAdapter ==
    \/ OpenAIParseToolCalls
    \/ AnthropicParseToolCalls
    \/ OpenAIFormatTools
    \/ AnthropicFormatTools
    \/ OpenAIFormatToolResults
    \/ AnthropicFormatToolResults
    \/ AnthropicCreateToolResultMessage
    \/ AnthropicParseStreamingToolUse
    \/ OpenAIParseStreamingToolCalls

SpecAdapter == InitAdapter /\ [][NextAdapter]_vars

-----------------------------------------------------------------------------
(* Streaming tool-call assembly, Anthropic style.  The adapter decodes one  *)
(* event into one fragment (parse_streaming_tool_use, from the code).  The  *)
(* loop that drives a session and owns the accumulation per block index is  *)
(* not part of the repository's files: it is modelled from sections 3, 4.3  *)
(* and 5 of the specification (Accumulate, ReceiveEvent, EndStream,         *)
(* DispatchToolCall).                                                       *)

\* The number of events a streaming session receives at most.
MaxEvents == 5

\* One step of the per-block machine NONE -> STARTED -> ACCUMULATING ->
\* COMPLETE on a fragment; a fragment the machine has no transition for
\* leaves the block as it is.
Accumulate(block, fragment) ==
    IF "event" \notin DOMAIN fragment THEN block
    ELSE CASE fragment.event = "tool_use_start" /\ block.state = "NONE" ->
                [state |-> "STARTED", id |-> fragment.id, name |-> fragment.name,
                 json |-> << >>]
           [] fragment.event = "tool_use_delta"
                /\ block.state \in {"STARTED", "ACCUMULATING"} ->
                [block EXCEPT !.state = "ACCUMULATING",
                              !.json = block.json \o fragment.partial_json]
           [] fragment.event = "tool_use_stop"
                /\ block.state \in {"STARTED", "ACCUMULATING"} ->
                [block EXCEPT !.state = "COMPLETE"]
           [] OTHER -> block

\* The step took the block to COMPLETE.
Completes(block, fragment) ==
    block.state # "COMPLETE" /\ Accumulate(block, fragment).state = "COMPLETE"

InitStream ==
    /\ tools = EmptyDict
    /\ call = [fn |-> "__init__"]
    /\ raised = "none"
    /\ ret = None
    /\ before = EmptyDict
    /\ addedBy = [n \in Names |-> NoTool]
    /\ snapshot = None
    /\ instance = RegistryObject(1)
    /\ googleLibs = TRUE
    /\ arg = None
    /\ status = "open"
    /\ received = 0
    /\ blocks = [i \in BlockIndices |-> NoBlock]
    /\ finalized = << >>
    /\ executed = {}
    /\ decodeErrors = {}
    /\ discarded = {}
    /\ openBlock = [i \in BlockIndices |-> "none"]
    /\ NoTasks
    /\ NoMain

\* The session receives the next event of the stream: the adapter decodes it
\* and the fragment drives the machine of the event's block index; on
\* COMPLETE the concatenation is parsed, and finalized or reported.
ReceiveEvent ==
    \E e \in StreamEvents :
        LET fragment == parse_streaming_tool_use(e)
            keyed == "index" \in DOMAIN e /\ "event" \in DOMAIN fragment
            i == e.index
            loaded == json_loads(blocks[i].json)
        IN  /\ status = "open"
            /\ received < MaxEvents
            /\ received' = received + 1
            /\ call' = [fn |-> "parse_streaming_tool_use", event |-> e]
            /\ raised' = "none"
            /\ ret' = fragment
            /\ blocks' = IF keyed
                         THEN [blocks EXCEPT ![i] = Accumulate(blocks[i], fragment)]
                         ELSE blocks
            /\ finalized' =
                  IF keyed /\ Completes(blocks[i], fragment) /\ loaded.raised = "none"
                  THEN Append(finalized, [index |-> i, id |-> blocks[i].id,
                                          tool_name |-> blocks[i].name,
                                          parameters |-> loaded.ret])
                  ELSE finalized
            /\ decodeErrors' =
                  IF keyed /\ Completes(blocks[i], fragment) /\ loaded.raised # "none"
                  THEN decodeErrors \cup {i}
                  ELSE decodeErrors
            /\ openBlock' =
                  IF "index" \in DOMAIN e /\ "type" \in DOMAIN e
                  THEN CASE e.type = "content_block_start" ->
                              [openBlock EXCEPT ![i] =
                                  IF "content_block" \in DOMAIN e /\ IsToolUse(e.content_block)
                                  THEN "tool_use" ELSE "text"]
                         [] e.type = "content_block_stop" ->
                              [openBlock EXCEPT ![i] = "none"]
                         [] OTHER -> openBlock
                  ELSE openBlock
            /\ UNCHANGED <<tools, before, addedBy, snapshot, instance, googleLibs, arg,
                           status, executed, discarded, taskVars, mainVars>>

\* The stream terminates, at its end or early: every accumulation that has
\* not reached COMPLETE is dropped.
EndStream ==
    /\ status = "open"
    /\ status' = "ended"
    /\ blocks' = [i \in BlockIndices |->
                    IF blocks[i].state \in {"STARTED", "ACCUMULATING"}
                    THEN NoBlock ELSE blocks[i]]
    /\ discarded' = {i \in BlockIndices : blocks[i].state \in {"STARTED", "ACCUMULATING"}}
    /\ UNCHANGED <<tools, call, raised, ret, before, addedBy, snapshot, instance,
                   googleLibs, arg, received, finalized, executed, decodeErrors,
                   openBlock, taskVars, mainVars>>

\* A finalized tool call is handed to its tool for execution.
DispatchToolCall ==
    \E k \in 1..Len(finalized) :
        /\ finalized[k].index \notin executed
        /\ executed' = executed \cup {finalized[k].index}
        /\ UNCHANGED <<tools, call, raised, ret, before, addedBy, snapshot, instance,
                       googleLibs, arg, status, received, blocks, finalized,
                       decodeErrors, discarded, openBlock, taskVars, mainVars>>

NextStream == ReceiveEvent \/ EndStream \/ DispatchToolCall

SpecStream == InitStream /\ [][NextStream]_vars

-----------------------------------------------------------------------------
(* Concurrent tasks calling the registry.  A call is run statement by       *)
(* statement; the registry holds no lock and nothing confines its callers   *)
(* to one thread, so another task may run between any two statements.       *)

\* the registries a run starts from: up to two tools, registered in any order
InitialRegistries ==
    {EmptyDict}
        \cup {<<[k |-> n, v |-> Tool(n, 1)]>> : n \in Names}
        \cup UNION {{<<[k |-> n, v |-> Tool(n, 1)], [k |-> m, v |-> Tool(m, 1)]>> :
                        m \in Names \ {n}} : n \in Names}

RegistryCalls ==
    {[fn |-> "register_tool", tool |-> tool] : tool \in ToolPool}
        \cup {[fn |-> "unregister_tool", tool_name |-> n] : n \in Names}
        \cup {[fn |-> f] : f \in {"clear", "list_tools", "get_all_tools", "get_tool_schemas"}}

\* the method call as one step
RegistryCall(op, d) ==
    CASE op.fn = "register_tool" -> register_tool(d, op.tool)
      [] op.fn = "unregister_tool" -> unregister_tool(d, op.tool_name)
      [] op.fn = "clear" -> clear(d)
      [] op.fn = "list_tools" -> list_tools(d)
      [] op.fn = "get_all_tools" -> get_all_tools(d)
      [] op.fn = "get_tool_schemas" -> get_tool_schemas(d)

IsDummy(e) == e.k = "<dummy>"

\* the dict the table holds
Live(tb) == SelectSeq(tb.slots, LAMBDA e : ~IsDummy(e))

\* the number of entries a keys object of this size has room for
Usable(size) == (2 * size) \div 3

RECURSIVE PowerOfTwoAbove(_, _)
\* the first of p, 2p, 4p, ... that is greater than n
PowerOfTwoAbove(n, p) == IF p > n THEN p ELSE PowerOfTwoAbove(n, 2 * p)

\* The size of the keys object made when n entries are asked for, as the
\* interpreter that runs the registry computes it (CPython 3.11): the
\* smallest size for none or 8, otherwise the power of two above n, 16 at
\* least.
KeySize(n) == IF n \in {0, 8} THEN 8 ELSE PowerOfTwoAbove(n, 16)

\* d[k] = v: in place for a key that is there; otherwise in the next free
\* slot, after the table was rebuilt without its dummies if it was full.
TableSet(tb, k, v) ==
    IF HasKey(Live(tb), k)
    THEN [tb EXCEPT !.slots = [i \in 1..Len(tb.slots) |->
                                   IF tb.slots[i].k = k THEN [k |-> k, v |-> v]
                                   ELSE tb.slots[i]]]
    ELSE IF Len(tb.slots) >= tb.cap
    THEN [slots |-> Append(Live(tb), [k |-> k, v |-> v]),
          cap |-> IF tb.cap = 0 THEN Usable(KeySize(0))
                  ELSE Usable(KeySize(3 * Len(Live(tb))))]
    ELSE [tb EXCEPT !.slots = Append(tb.slots, [k |-> k, v |-> v])]

\* del d[k]: the slot stays, as a dummy
TableDel(tb, k) ==
    [tb EXCEPT !.slots = [i \in 1..Len(tb.slots) |->
                             IF tb.slots[i].k = k THEN [k |-> "<dummy>", v |-> None]
                             ELSE tb.slots[i]]]

\* the table of a dict that holds d after insertions only
TableOf(d) == IF d = EmptyDict THEN EmptyTable ELSE [slots |-> d, cap |-> Usable(KeySize(0))]

\* the first slot after pos that holds an entry, 0 when there is none
NextSlot(tb, pos) ==
    LET ahead == {i \in (pos + 1)..Len(tb.slots) : ~IsDummy(tb.slots[i])}
    IN  IF ahead = {} THEN 0 ELSE CHOOSE i \in ahead : \A j \in ahead : i <= j

\* A task that has entered the call op on the registry d.
Entered(op, d) ==
    [pc |-> "entered", op |-> op, start |-> d, end |-> d, size |-> 0, pos |-> 0,
     left |-> 0, acc |-> << >>, raised |-> "none", ret |-> NoReturn]

Returned(task, tb, v) ==
    [task |-> [task EXCEPT !.pc = "done", !.ret = v, !.end = Live(tb)], table |-> tb]

Raised(task, tb, e) ==
    [task |-> [task EXCEPT !.pc = "done", !.raised = e, !.end = Live(tb)], table |-> tb]

At(task, tb, at) == [task |-> [task EXCEPT !.pc = at], table |-> tb]

\* The next statement of the task's method on the registry whose entry table
\* is tb.  The loop of get_tool_schemas runs on a dict iterator: it holds
\* the size the dict had, the slot it has come to and the number of items
\* left, and fails when the size differs or an item turns up with none left.
registry_step(task, tb) ==
    LET op == task.op
        at == task.pc
        d == Live(tb)
        i == NextSlot(tb, task.pos)
    IN  CASE op.fn = "register_tool" /\ at = "entered" ->
                IF HasKey(d, op.tool.name) THEN Raised(task, tb, "ValueError")
                ELSE At(task, tb, "store")
          [] op.fn = "register_tool" /\ at = "store" ->
                Returned(task, TableSet(tb, op.tool.name, op.tool), None)
          [] op.fn = "unregister_tool" /\ at = "entered" ->
                IF HasKey(d, op.tool_name) THEN At(task, tb, "del")
                ELSE Returned(task, tb, None)
          [] op.fn = "unregister_tool" /\ at = "del" ->
                IF HasKey(d, op.tool_name) THEN Returned(task, TableDel(tb, op.tool_name), None)
                ELSE Raised(task, tb, "KeyError")
          [] op.fn = "clear" -> Returned(task, EmptyTable, None)
          [] op.fn = "list_tools" -> Returned(task, tb, DictKeys(d))
          [] op.fn = "get_all_tools" -> Returned(task, tb, DictObject("copy", d))
          [] op.fn = "get_tool_schemas" /\ at = "entered" ->
                [task |-> [task EXCEPT !.pc = "iter", !.size = Len(d), !.left = Len(d)],
                 table |-> tb]
          [] op.fn = "get_tool_schemas" /\ at = "iter" ->
                IF Len(d) # task.size THEN Raised(task, tb, "RuntimeError")
                ELSE IF i = 0 THEN Returned(task, tb, task.acc)
                ELSE IF task.left = 0 THEN Raised(task, tb, "RuntimeError")
                ELSE [task |-> [task EXCEPT
                                  !.pos = i,
                                  !.left = task.left - 1,
                                  !.acc = Append(task.acc,
                                      [name |-> tb.slots[i].v.name,
                                       description |-> tb.slots[i].v.description,
                                       parameters |-> tb.slots[i].v.parameters_schema])],
                      table |-> tb]

InFlight(task) == task.pc \notin {"idle", "done"}

InitConc ==
    /\ tools \in InitialRegistries
    /\ call = [fn |-> "__new__"]
    /\ raised = "none"
    /\ ret = None
    /\ before = tools
    /\ addedBy = [n \in Names |-> NoTool]
    /\ snapshot = None
    /\ instance = RegistryObject(1)
    /\ googleLibs = TRUE
    /\ arg = None
    /\ NoStream
    /\ tasks = [t \in Tasks |-> IdleTask]
    /\ running = 0
    /\ table = TableOf(tools)
    /\ NoMain

ConcEffect ==
    UNCHANGED <<call, raised, ret, before, addedBy, snapshot, instance, googleLibs, arg,
                streamVars, mainVars>>

\* A task enters a registry method.
TaskBegins ==
    \E t \in Tasks, op \in RegistryCalls :
        /\ tasks[t].pc = "idle"
        /\ tasks' = [tasks EXCEPT ![t] = Entered(op, tools)]
        /\ running' = t
        /\ UNCHANGED <<tools, table>>
        /\ ConcEffect

\* A task that is inside a method runs its next statement.
TaskSteps ==
    \E t \in Tasks :
        /\ InFlight(tasks[t])
        /\ tasks' = [tasks EXCEPT ![t] = registry_step(tasks[t], table).task]
        /\ table' = registry_step(tasks[t], table).table
        /\ tools' = Live(registry_step(tasks[t], table).table)
        /\ running' = t
        /\ ConcEffect

NextConc == TaskBegins \/ TaskSteps

SpecConc == InitConc /\ [][NextConc]_vars

-----------------------------------------------------------------------------
(* main.py: the provider cache and the /chat/stream event stream.  Strings  *)
(* that the code slices or concatenates are sequences of characters.        *)

MaxChunks == 2

KeyPrefixLen == 8

OpenAIName == <<"o", "p", "e", "n", "a", "i">>

AnthropicName == <<"a", "n", "t", "h", "r", "o", "p", "i", "c">>

AzureName == <<"a", "z", "u", "r", "e">>

\* the values ChatRequest.provider admits
RequestProviders == {OpenAIName, AnthropicName}

ProviderNames == RequestProviders \cup {AzureName}

KeyA == <<"s", "k", "-", "l", "i", "v", "e", "-", "A">>

KeyB == <<"s", "k", "-", "l", "i", "v", "e", "-", "B">>

\* two keys that agree on their first eight characters
ApiKeys == {KeyA, KeyB}

\* s[:n]
Slice(s, n) == SubSeq(s, 1, IF Len(s) < n THEN Len(s) ELSE n)

\* f"{provider_name}:{api_key[:8]}"
cache_key(provider_name, api_key) ==
    provider_name \o <<":">> \o Slice(api_key, KeyPrefixLen)

\* A provider object: BaseProvider.__init__ stores the key it was given; id
\* tells the objects apart.
Provider(kind, api_key, id) == [kind |-> kind, api_key |-> api_key, id |-> id]

\* get_provider(provider_name, api_key) on the cache d; the result carries
\* the cache after the call.
get_provider(d, provider_name, api_key) ==
    LET key == cache_key(provider_name, api_key)
        fresh == Len(d) + 1
    IN  IF HasKey(d, key)
        THEN [raised |-> "none", providers |-> d, ret |-> DictGet(d, key)]
        ELSE IF provider_name = OpenAIName
        THEN [raised |-> "none",
              providers |-> DictSet(d, key, Provider("OpenAIProvider", api_key, fresh)),
              ret |-> Provider("OpenAIProvider", api_key, fresh)]
        ELSE IF provider_name = AnthropicName
        THEN [raised |-> "none",
              providers |-> DictSet(d, key, Provider("AnthropicProvider", api_key, fresh)),
              ret |-> Provider("AnthropicProvider", api_key, fresh)]
        ELSE [raised |-> "HTTPException", providers |-> d, ret |-> NoReturn]

\* StreamChunk values a provider stream yields
Chunks ==
    {[delta |-> "Hel", finish_reason |-> None],
     [delta |-> "", finish_reason |-> PyStr("stop")]}

\* str(e) of the exceptions a provider stream raises
StreamErrors == {"rate limited", "connection reset"}

\* One server-sent event, f"data: {payload}\n\n".
SSE(payload) == [data |-> payload]

\* json.dumps(chunk.dict())
ChunkEvent(chunk) ==
    SSE([json |-> "object", delta |-> chunk.delta, finish_reason |-> chunk.finish_reason])

DoneEvent == SSE([literal |-> "[DONE]"])

\* json.dumps({'error': error.dict()})
ErrorEvent(detail, provider) ==
    SSE([json |-> "object",
         error |-> [error |-> "Streaming failed", detail |-> detail, provider |-> provider]])

\* an except branch that goes on to the done signal
event_stream_except_then_done(out, detail, req) ==
    Append(Append(out, ErrorEvent(detail, req.provider)), DoneEvent)

\* The except branch of event_stream: one error event, and the generator ends.
event_stream_except(out, detail, req) ==
    Append(out, ErrorEvent(detail, req.provider))

\* get_provider is called outside a stream, by some other request.
GetProvider ==
    \E n \in ProviderNames, k \in ApiKeys :
        /\ call' = [fn |-> "get_provider", provider_name |-> n, api_key |-> k]
        /\ providers' = get_provider(providers, n, k).providers
        /\ raised' = get_provider(providers, n, k).raised
        /\ ret' = get_provider(providers, n, k).ret
        /\ UNCHANGED <<tools, before, addedBy, snapshot, instance, googleLibs, arg,
                       streamVars, taskVars, request, pc, emitted, yielded, upstream>>

\* A /chat/stream request arrives and its event_stream runs up to the first
\* step of the provider stream: get_provider inside the try.
OpenStream ==
    \E n \in RequestProviders, k \in ApiKeys :
        LET req == [provider |-> n, api_key |-> k]
            got == get_provider(providers, n, k)
        IN  /\ pc \in {"idle", "closed"}
            /\ request' = req
            /\ call' = [fn |-> "event_stream", provider_name |-> n, api_key |-> k]
            /\ providers' = got.providers
            /\ raised' = "none"
            /\ ret' = got.ret
            /\ yielded' = << >>
            /\ emitted' = IF got.raised = "none" THEN << >>
                          ELSE event_stream_except(<< >>, got.raised, req)
            /\ upstream' = IF got.raised = "none" THEN "open" ELSE "none"
            /\ pc' = IF got.raised = "none" THEN "streaming" ELSE "closed"
            /\ UNCHANGED <<tools, before, addedBy, snapshot, instance, googleLibs, arg,
                           streamVars, taskVars>>

StreamEffect ==
    /\ raised' = "none"
    /\ UNCHANGED <<tools, before, addedBy, snapshot, instance, googleLibs, arg,
                   streamVars, taskVars, providers, request>>

\* The provider stream yields a chunk, and event_stream yields its event.
ProviderYields ==
    \E chunk \in Chunks :
        /\ pc = "streaming"
        /\ Len(yielded) < MaxChunks
        /\ call' = [fn |-> "event_stream", step |-> "chunk"]
        /\ yielded' = Append(yielded, chunk)
        /\ emitted' = Append(emitted, ChunkEvent(chunk))
        /\ ret' = ChunkEvent(chunk)
        /\ UNCHANGED <<pc, upstream>>
        /\ StreamEffect

\* The provider stream is exhausted: the done signal, and the generator ends.
ProviderFinishes ==
    /\ pc = "streaming"
    /\ call' = [fn |-> "event_stream", step |-> "done"]
    /\ emitted' = Append(emitted, DoneEvent)
    /\ ret' = DoneEvent
    /\ upstream' = "finished"
    /\ pc' = "closed"
    /\ UNCHANGED yielded
    /\ StreamEffect

\* The provider stream raises an Exception: the except branch.
ProviderRaises ==
    \E detail \in StreamErrors :
        /\ pc = "streaming"
        /\ call' = [fn |-> "event_stream", step |-> "except"]
        /\ emitted' = event_stream_except(emitted, detail, request)
        /\ ret' = ErrorEvent(detail, request.provider)
        /\ upstream' = "raised"
        /\ pc' = "closed"
        /\ UNCHANGED yielded
        /\ StreamEffect

\* The generator stands at its yield or in asyncio.sleep after a chunk event
\* and is closed by its consumer, or its task is cancelled there:
\* GeneratorExit and CancelledError are not Exceptions, the except branch
\* does not run, and the stream is over without a terminal event.
GeneratorClosed ==
    /\ pc = "streaming"
    /\ Len(emitted) >= 1
    /\ call' = [fn |-> "event_stream", step |-> "close"]
    /\ raised' \in {"GeneratorExit", "CancelledError"}
    /\ ret' = NoReturn
    /\ upstream' = "closed"
    /\ pc' = "closed"
    /\ UNCHANGED <<tools, before, addedBy, snapshot, instance, googleLibs, arg,
                   streamVars, taskVars, providers, request, emitted, yielded>>

\* The provider stream raises a BaseException that is not an Exception (a
\* cancellation while it waits for the network): it passes the except branch
\* and leaves event_stream, with no event.
ProviderRaisesBaseException ==
    /\ pc = "streaming"
    /\ call' = [fn |-> "event_stream", step |-> "propagate"]
    /\ raised' = "CancelledError"
    /\ ret' = NoReturn
    /\ upstream' = "base_exception"
    /\ pc' = "closed"
    /\ UNCHANGED <<tools, before, addedBy, snapshot, instance, googleLibs, arg,
                   streamVars, taskVars, providers, request, emitted, yielded>>

NextMain ==
    \/ GetProvider
    \/ OpenStream
    \/ ProviderYields
    \/ ProviderFinishes
    \/ ProviderRaises
    \/ GeneratorClosed
    \/ ProviderRaisesBaseException

SpecMain == Init /\ [][NextMain]_vars

-----------------------------------------------------------------------------
(* Claims about the registry, checked under Spec.                           *)

\* C1: a register_tool call for a name that is already a key of the registry
\* raises the duplicate-name error (ValueError) and leaves the mapping as it
\* was before the call: the registered tool is not overwritten, no entry changes.
C1_DuplicateRegistrationRejected ==
    (call.fn = "register_tool" /\ HasKey(before, call.tool.name))
        => (raised = "ValueError" /\ tools = before)

\* C1 witness: a full registry has just refused another instance of a
\* registered name.
C1_Witness ==
    /\ call.fn = "register_tool"
    /\ Len(before) = 2
    /\ HasKey(before, call.tool.name)
    /\ DictGet(before, call.tool.name) # call.tool
    /\ raised = "ValueError"

\* C2: after any sequence of register_tool, unregister_tool and clear calls the
\* registry holds at most one tool per name, list_tools returns no name twice,
\* and every name maps to the instance of the register_tool call that returned
\* normally for it last.
C2_OneToolPerName ==
    /\ \A i, j \in 1..Len(tools) : tools[i].k = tools[j].k => i = j
    /\ \A i \in 1..Len(tools) :
          /\ tools[i].v.name = tools[i].k
          /\ tools[i].v = addedBy[tools[i].k]
    /\ call.fn = "list_tools" =>
          /\ Len(ret) = Len(tools)
          /\ \A i, j \in 1..Len(ret) : ret[i] = ret[j] => i = j

\* C2 witness: list_tools on a registry of two names, one of them registered
\* again with another instance after its first instance was removed.
C2_Witness ==
    /\ call.fn = "list_tools"
    /\ Len(ret) = 2
    /\ \E i \in 1..Len(tools) : tools[i].v.inst = 2
    /\ \E i \in 1..Len(tools) : tools[i].v.inst = 1

-----------------------------------------------------------------------------
(* Claims about Tool.execute, checked under SpecExec.                       *)

\* C3: execute never lets an exception escape: for every parameters object
\* (one without the 'action' key and one naming an unknown action included)
\* and every context (absent, or without the credential) it returns a result
\* record, which for a failed execution has success = false and an error text.
C3_ExecuteNeverRaises ==
    call.fn = "execute" =>
        /\ raised = "none"
        /\ "success" \in DOMAIN ret
        /\ ret.success = FALSE => ("error" \in DOMAIN ret /\ ret.error # "")

-----------------------------------------------------------------------------
(* Claims about the adapters, checked under SpecAdapter.                    *)

\* The response's first choice has a message that carries a tool-call list.
HasToolCallList(response) ==
    /\ "choices" \in DOMAIN response
    /\ response.choices.py = "list"
    /\ Len(response.choices.items) > 0
    /\ "message" \in DOMAIN response.choices.items[1]
    /\ "tool_calls" \in DOMAIN response.choices.items[1].message
    /\ response.choices.items[1].message.tool_calls.py = "list"

ToolCallsOf(response) == response.choices.items[1].message.tool_calls.items

\* What each arguments string drawn decodes to; the two that are no JSON text
\* stand for the empty object.
ExpectedParameters(arguments) ==
    CASE arguments = ArgCats -> ObjCats
      [] arguments = ArgEmpty -> JObj(EmptyDict)
      [] arguments = ArgBad -> JObj(EmptyDict)
      [] arguments = ArgCut -> JObj(EmptyDict)
      [] arguments = ArgNumber -> JNum(1)
      [] OTHER -> ObjNested

\* C4: OpenAI-style parse_tool_calls on a response whose first message carries
\* the tool calls c1..cn returns n records in the same order, record i with
\* ci's id and function name; parameters is the empty object where ci's
\* arguments are not valid JSON and the decoded arguments otherwise; no error.
C4_OpenAIParseKeepsEveryCall ==
    (call.fn = "parse_tool_calls" /\ call.adapter = "openai" /\ HasToolCallList(arg.v))
        => /\ raised = "none"
           /\ Len(ret) = Len(ToolCallsOf(arg.v))
           /\ \A i \in 1..Len(ret) :
                 /\ ret[i].id = ToolCallsOf(arg.v)[i].id
                 /\ ret[i].tool_name = ToolCallsOf(arg.v)[i].function.name
                 /\ ret[i].parameters =
                        ExpectedParameters(ToolCallsOf(arg.v)[i].function.arguments)

\* C4 witness: two calls decoded, the first with malformed arguments, the
\* second with {"q": "cats"}.
C4_Witness ==
    /\ call.fn = "parse_tool_calls"
    /\ call.adapter = "openai"
    /\ HasToolCallList(arg.v)
    /\ Len(ToolCallsOf(arg.v)) = 2
    /\ ToolCallsOf(arg.v)[1].function.arguments = ArgBad
    /\ ToolCallsOf(arg.v)[2].function.arguments = ArgCats
    /\ raised = "none"
    /\ ret[1].parameters = JObj(EmptyDict)
    /\ ret[2].parameters = ObjCats

MalformedOpenAI(response) ==
    \/ "choices" \notin DOMAIN response
    \/ /\ response.choices.py = "list"
       /\ \/ Len(response.choices.items) = 0
          \/ "message" \notin DOMAIN response.choices.items[1]
          \/ "tool_calls" \notin DOMAIN response.choices.items[1].message

MalformedAnthropic(response) ==
    \/ "content" \notin DOMAIN response
    \/ response.content.py = "None"

\* C5: for both adapters parse_tool_calls on a response whose shape is absent
\* or malformed (no choices or content attribute, an empty choices list, a
\* first choice without a message, a message without a tool-call list, a null
\* content container) returns the empty sequence and never raises.
C5_MalformedShapeGivesEmpty ==
    (/\ call.fn = "parse_tool_calls"
     /\ \/ call.adapter = "openai" /\ MalformedOpenAI(arg.v)
        \/ call.adapter = "anthropic" /\ MalformedAnthropic(arg.v))
        => (raised = "none" /\ ret = << >>)

NoToolCallContent(adapter, response) ==
    IF adapter = "openai"
    THEN /\ "choices" \in DOMAIN response
         /\ response.choices.py = "list"
         /\ Len(response.choices.items) > 0
         /\ "message" \in DOMAIN response.choices.items[1]
         /\ \/ "tool_calls" \notin DOMAIN response.choices.items[1].message
            \/ response.choices.items[1].message.tool_calls.py = "None"
            \/ ToolCallsOf(response) = << >>
    ELSE /\ "content" \in DOMAIN response
         /\ response.content.py = "list"
         /\ \A i \in 1..Len(response.content.items) :
               ~IsToolUse(response.content.items[i])

\* C6: for both adapters parse_tool_calls on a well-formed response with no
\* tool-call content (OpenAI: tool_calls absent, null or empty; Anthropic: no
\* tool_use block in content) returns the empty sequence and raises no error.
C6_NoToolCallsGivesEmpty ==
    (call.fn = "parse_tool_calls" /\ NoToolCallContent(call.adapter, arg.v))
        => (raised = "none" /\ ret = << >>)

\* C6 witness: an OpenAI-style message whose tool_calls is null was parsed.
C6_Witness ==
    /\ call.fn = "parse_tool_calls"
    /\ call.adapter = "openai"
    /\ NoToolCallContent("openai", arg.v)
    /\ "tool_calls" \in DOMAIN arg.v.choices.items[1].message
    /\ arg.v.choices.items[1].message.tool_calls.py = "None"
    /\ raised = "none"

ToolUseIndices(content) == {i \in 1..Len(content) : IsToolUse(content[i])}

\* the index of the j-th tool_use block of content
NthToolUse(content, j) ==
    CHOOSE i \in ToolUseIndices(content) :
        Cardinality({x \in ToolUseIndices(content) : x <= i}) = j

\* C7: Anthropic-style parse_tool_calls returns one record per content block
\* of type tool_use, in the order of the blocks, with the block's id, its name
\* as tool_name and its input unchanged as parameters; a block of another
\* type, or with no type, gives no record and no error.  (The tool_use blocks
\* are those of the provider: each has an id, a name and an input.)
C7_AnthropicParseOnePerToolUse ==
    (/\ call.fn = "parse_tool_calls"
     /\ call.adapter = "anthropic"
     /\ "content" \in DOMAIN arg.v
     /\ arg.v.content.py = "list"
     /\ \A i \in ToolUseIndices(arg.v.content.items) :
           {"id", "name", "input"} \subseteq DOMAIN arg.v.content.items[i])
        => /\ raised = "none"
           /\ Len(ret) = Cardinality(ToolUseIndices(arg.v.content.items))
           /\ \A j \in 1..Len(ret) :
                 LET block == arg.v.content.items[NthToolUse(arg.v.content.items, j)]
                 IN  ret[j] = [id |-> block.id, tool_name |-> block.name,
                               parameters |-> block.input]

\* C7 witness: a block that is no tool_use block was passed over and the
\* tool_use block after it was returned.
C7_Witness ==
    /\ call.fn = "parse_tool_calls"
    /\ call.adapter = "anthropic"
    /\ "content" \in DOMAIN arg.v
    /\ arg.v.content.py = "list"
    /\ Len(arg.v.content.items) = 2
    /\ ~IsToolUse(arg.v.content.items[1])
    /\ IsToolUse(arg.v.content.items[2])
    /\ raised = "none"
    /\ Len(ret) = 1
    /\ ret[1].id = "call_2"

\* C8: format_tools returns a sequence of the length and order of the tools
\* given, entry i holding exactly tool i's name, description and schema:
\* {type: "function", function: {name, description, parameters}} for the
\* OpenAI-style adapter, {name, description, input_schema} for the
\* Anthropic-style one.
C8_FormatToolsPreservesTools ==
    call.fn = "format_tools" =>
        /\ raised = "none"
        /\ Len(ret) = Len(arg.v.items)
        /\ \A i \in 1..Len(ret) :
              LET tool == arg.v.items[i] IN
              IF call.adapter = "openai"
              THEN /\ DOMAIN ret[i] = {"type", "function"}
                   /\ ret[i].type = "function"
                   /\ DOMAIN ret[i].function = {"name", "description", "parameters"}
                   /\ ret[i].function.name = tool.name
                   /\ ret[i].function.description = tool.description
                   /\ ret[i].function.parameters = tool.parameters_schema
              ELSE /\ DOMAIN ret[i] = {"name", "description", "input_schema"}
                   /\ ret[i].name = tool.name
                   /\ ret[i].description = tool.description
                   /\ ret[i].input_schema = tool.parameters_schema

\* C8 witness: two tools of different names formatted for the OpenAI style.
C8_Witness ==
    /\ call.fn = "format_tools"
    /\ call.adapter = "openai"
    /\ Len(arg.v.items) = 2
    /\ arg.v.items[1].name # arg.v.items[2].name
    /\ Len(ret) = 2
    /\ ret[2].function.name = arg.v.items[2].name

ResultId(result) ==
    IF "tool_call_id" \in DOMAIN result THEN result["tool_call_id"] ELSE ""

ResultObject(result) ==
    IF "result" \in DOMAIN result THEN result["result"] ELSE JObj(EmptyDict)

\* content is a JSON text of the result's result object ({"ok": true} is the
\* text {"ok": true} token for token)
EncodesResult(content, result) ==
    /\ json_loads(content).raised = "none"
    /\ json_loads(content).ret = ResultObject(result)
    /\ ResultObject(result) = ObjOk => content = <<"{", "\"ok\"", ":", " ", "true", "}">>

IsToolResultBlocks(content, results) ==
    /\ Len(content) = Len(results)
    /\ \A i \in 1..Len(content) :
          /\ DOMAIN content[i] = {"type", "tool_use_id", "content"}
          /\ content[i].type = "tool_result"
          /\ content[i].tool_use_id = ResultId(results[i])
          /\ EncodesResult(content[i]["content"], results[i])

\* C9: n tool results are encoded in order: OpenAI-style format_tool_results
\* gives n messages {role: "tool", tool_call_id, content}, Anthropic-style
\* create_tool_result_message one user message whose content is n blocks
\* {type: "tool_result", tool_use_id, content}; the id is that of result i (the
\* empty string when it has none, without a failure) and content is the JSON
\* encoding of result i's result object.
C9_ToolResultsKeepOrderAndId ==
    /\ (call.fn = "format_tool_results" /\ call.adapter = "openai") =>
          /\ raised = "none"
          /\ Len(ret) = Len(arg.v.items)
          /\ \A i \in 1..Len(ret) :
                /\ DOMAIN ret[i] = {"role", "tool_call_id", "content"}
                /\ ret[i].role = "tool"
                /\ ret[i].tool_call_id = ResultId(arg.v.items[i])
                /\ EncodesResult(ret[i].content, arg.v.items[i])
    /\ (call.fn = "format_tool_results" /\ call.adapter = "anthropic") =>
          /\ raised = "none"
          /\ IsToolResultBlocks(ret, arg.v.items)
    /\ call.fn = "create_tool_result_message" =>
          /\ raised = "none"
          /\ DOMAIN ret = {"role", "content"}
          /\ ret.role = "user"
          /\ IsToolResultBlocks(ret.content, arg.v.items)

\* C9 witness: one user message of two blocks, the first for a result with no
\* tool_call_id, the second for a result with one.
C9_Witness ==
    /\ call.fn = "create_tool_result_message"
    /\ Len(arg.v.items) = 2
    /\ "tool_call_id" \notin DOMAIN arg.v.items[1]
    /\ "tool_call_id" \in DOMAIN arg.v.items[2]
    /\ raised = "none"
    /\ Len(ret.content) = 2
    /\ ret.content[1].tool_use_id = ""
    /\ ret.content[2].tool_use_id = "call_2"


-----------------------------------------------------------------------------
(* Claims about streaming assembly, checked under SpecStream.               *)

FinalizedIndices == {finalized[k].index : k \in 1..Len(finalized)}

\* Between two states of a session, a tool call is added to finalized only by
\* the step that receives the content_block_stop event of the call's block
\* index, and it carries the parsed concatenation of the block's fragments.
FinalizedOnlyAtStop ==
    finalized' # finalized =>
        /\ Len(finalized') = Len(finalized) + 1
        /\ SubSeq(finalized', 1, Len(finalized)) = finalized
        /\ call'.fn = "parse_streaming_tool_use"
        /\ "type" \in DOMAIN call'.event
        /\ call'.event.type = "content_block_stop"
        /\ LET new == finalized'[Len(finalized')]
           IN  /\ new.index = call'.event.index
               /\ blocks[new.index].state \in {"STARTED", "ACCUMULATING"}
               /\ json_loads(blocks[new.index].json).raised = "none"
               /\ new.parameters = json_loads(blocks[new.index].json).ret

\* Execution is triggered from finalized tool calls only.
ExecutedOnlyFinalized == executed' \subseteq FinalizedIndices

\* Finalized calls belong to COMPLETE blocks; after the end of the stream no
\* block is left in STARTED or ACCUMULATING, and a block dropped at the end
\* has no accumulation, no finalized call and no execution.
NoIncompleteFinalized ==
    /\ \A i \in FinalizedIndices : blocks[i].state = "COMPLETE"
    /\ executed \subseteq FinalizedIndices
    /\ status = "ended" =>
          \A i \in BlockIndices : blocks[i].state \in {"NONE", "COMPLETE"}
    /\ \A i \in discarded :
          /\ blocks[i] = NoBlock
          /\ i \notin FinalizedIndices
          /\ i \notin executed

\* C10: Anthropic-style streaming assembly never finalizes an incomplete
\* block: a tool call is finalized (its accumulated JSON parsed, the call made
\* available for execution) only in the step that receives the stop event of
\* its block; a block that was started or had deltas but no stop when the
\* stream ended is discarded, has no finalized tool call and triggers no
\* execution.
C10_NeverFinalizesIncompleteBlock ==
    /\ []NoIncompleteFinalized
    /\ [][FinalizedOnlyAtStop /\ ExecutedOnlyFinalized]_vars

\* C10 witness: block 0 was started, got both fragments and its stop, and its
\* call {"q": "cats"} was finalized and dispatched; block 1 was started and had
\* no stop when the stream ended, and was discarded.
C10_Witness ==
    /\ status = "ended"
    /\ discarded = {1}
    /\ Len(finalized) = 1
    /\ finalized[1].index = 0
    /\ finalized[1].id = CallIds[1]
    /\ finalized[1].parameters = ObjCats
    /\ executed = {0}


\* The step receives an event of the stream.
Receiving == received' = received + 1

\* The event received by the step is of this type and carries a block index.
Receives(type) ==
    /\ Receiving
    /\ "type" \in DOMAIN call'.event
    /\ call'.event.type = type
    /\ "index" \in DOMAIN call'.event

IsToolUseStart(e) == e.type = "content_block_start" /\ e.content_block.type = "tool_use"

IsInputJsonDelta(e) == e.type = "content_block_delta" /\ e.delta.type = "input_json_delta"

Accumulating(block) == block.state \in {"STARTED", "ACCUMULATING"}

\* The start of a tool_use block at a fresh index opens the block with the
\* event's id and name and an empty text.
StartOpensBlock ==
    \A i \in BlockIndices :
        (Receives("content_block_start") /\ IsToolUseStart(call'.event)
            /\ call'.event.index = i /\ blocks[i].state = "NONE")
        => blocks'[i] = [state |-> "STARTED", id |-> call'.event.content_block.id,
                         name |-> call'.event.content_block.name, json |-> << >>]

\* A delta appends exactly its fragment to the text of its open block.
DeltaAppendsFragment ==
    \A i \in BlockIndices :
        (Receives("content_block_delta") /\ IsInputJsonDelta(call'.event)
            /\ call'.event.index = i /\ Accumulating(blocks[i]))
        => /\ blocks'[i].json = blocks[i].json \o call'.event.delta.partial_json
           /\ blocks'[i].id = blocks[i].id
           /\ blocks'[i].name = blocks[i].name
           /\ Accumulating(blocks'[i])

\* The stop of an open block whose text is a JSON text finalizes exactly one
\* tool call, with the block's id and name and the parse of the text.
StopFinalizesParse ==
    \A i \in BlockIndices :
        (Receives("content_block_stop") /\ call'.event.index = i
            /\ Accumulating(blocks[i]) /\ json_loads(blocks[i].json).raised = "none")
        => finalized' = Append(finalized,
                               [index |-> i, id |-> blocks[i].id,
                                tool_name |-> blocks[i].name,
                                parameters |-> json_loads(blocks[i].json).ret])

\* No block index has two finalized tool calls.
OneFinalizedPerBlock ==
    \A j, k \in 1..Len(finalized) : finalized[j].index = finalized[k].index => j = k

\* C11: Anthropic-style streaming reconstruction is exact: after
\* content_block_start(tool_use, id, name), the deltas f1..fn in arrival order
\* and content_block_stop, the block has exactly one finalized tool call, with
\* that id and name and with parameters equal to the parse of f1 + ... + fn;
\* every delta appends its whole fragment once at the end of the text.
C11_StreamingReconstructionExact ==
    /\ []OneFinalizedPerBlock
    /\ [][StartOpensBlock /\ DeltaAppendsFragment /\ StopFinalizesParse]_vars

\* C11 witness: block 1 was started, got the fragments {"q": and "cats"} in
\* that order and its stop; its one finalized call has the block's id and
\* name and the parameters {"q": "cats"}.
C11_Witness ==
    /\ Len(finalized) = 1
    /\ finalized[1].index = 1
    /\ finalized[1].id = CallIds[2]
    /\ finalized[1].tool_name = CallName(2)
    /\ blocks[1].json = FragmentOpen \o FragmentClose
    /\ finalized[1].parameters = ObjCats
    /\ received = 4


\* The stop of an open block whose text is not a JSON text signals a decode
\* error for the block and finalizes nothing.
StopOfBadTextSignals ==
    \A i \in BlockIndices :
        (Receives("content_block_stop") /\ call'.event.index = i
            /\ Accumulating(blocks[i]) /\ json_loads(blocks[i].json).raised # "none")
        => /\ decodeErrors' = decodeErrors \cup {i}
           /\ finalized' = finalized
           /\ blocks'[i].json = blocks[i].json

\* A block with a decode error has no finalized call, and every finalized
\* call carries the parse of its block's own text, which is a JSON text.
NoSubstitutedParameters ==
    /\ \A i \in decodeErrors :
          /\ i \notin FinalizedIndices
          /\ json_loads(blocks[i].json).raised # "none"
    /\ \A k \in 1..Len(finalized) :
          /\ json_loads(blocks[finalized[k].index].json).raised = "none"
          /\ finalized[k].parameters = json_loads(blocks[finalized[k].index].json).ret

\* C12: in the Anthropic-style streaming path, when the stop arrives for a
\* block whose concatenated partial_json is not valid JSON, a decode error is
\* signalled; the block is never finalized with an empty object or any other
\* substituted parameters.
C12_BadStreamedJsonSignalsDecodeError ==
    /\ []NoSubstitutedParameters
    /\ [][StopOfBadTextSignals]_vars

\* C12 witness: block 0 got only the fragment {"q": before its stop; a decode
\* error is signalled for it and nothing is finalized.
C12_Witness ==
    /\ blocks[0].state = "COMPLETE"
    /\ blocks[0].json = FragmentOpen
    /\ decodeErrors = {0}
    /\ finalized = << >>


-----------------------------------------------------------------------------
(* Claims about the streaming decoder, checked under SpecAdapter.           *)

HasType(e, type) == "type" \in DOMAIN e /\ e.type = type

StartsToolUse(e) ==
    /\ HasType(e, "content_block_start")
    /\ "content_block" \in DOMAIN e
    /\ HasType(e.content_block, "tool_use")

CarriesInputJson(e) ==
    /\ HasType(e, "content_block_delta")
    /\ "delta" \in DOMAIN e
    /\ HasType(e.delta, "input_json_delta")

\* fragment[key] is the object's attribute of that name, or default without it
Copies(fragment, key, obj, default) ==
    IF key \in DOMAIN obj THEN fragment[key] = obj[key] ELSE fragment[key] = default

\* C13: parse_streaming_tool_use maps each single event to one fragment:
\* content_block_start of a tool_use block gives {event: "tool_use_start", id,
\* name}, content_block_delta of an input_json_delta gives {event:
\* "tool_use_delta", partial_json: the delta's fragment}, content_block_stop
\* gives {event: "tool_use_stop"}, every other event (no type, the start of a
\* non-tool block, a delta of another type) gives the empty fragment, and no
\* event raises.
C13_OneFragmentPerEvent ==
    call.fn = "parse_streaming_tool_use" =>
        /\ raised = "none"
        /\ CASE StartsToolUse(arg.v) ->
                  /\ DOMAIN ret = {"event", "id", "name"}
                  /\ ret.event = "tool_use_start"
                  /\ Copies(ret, "id", arg.v.content_block, None)
                  /\ Copies(ret, "name", arg.v.content_block, None)
             [] CarriesInputJson(arg.v) ->
                  /\ DOMAIN ret = {"event", "partial_json"}
                  /\ ret.event = "tool_use_delta"
                  /\ Copies(ret, "partial_json", arg.v.delta, << >>)
             [] HasType(arg.v, "content_block_stop") ->
                  /\ DOMAIN ret = {"event"}
                  /\ ret.event = "tool_use_stop"
             [] OTHER -> DOMAIN ret = {}

\* C13 witness: the start of a text block was decoded to the empty fragment.
C13_Witness ==
    /\ call.fn = "parse_streaming_tool_use"
    /\ arg.v = BlockStart(1, "text")
    /\ raised = "none"
    /\ DOMAIN ret = {}


-----------------------------------------------------------------------------
(* Claims about validate_parameters, checked under SpecValidate.            *)

\* A name of the schema's required list is not a key of the parameters.
MissesRequired(schema, parameters) ==
    /\ "required" \in DOMAIN schema
    /\ \E i \in 1..Len(schema.required) : schema.required[i] \notin DOMAIN parameters

\* C14: validate_parameters returns false if and only if at least one name in
\* the schema's required list is not a key of parameters; it returns true when
\* every required name is present even with keys the schema does not declare,
\* and true when the schema has no required list.
C14_ValidateChecksRequiredOnly ==
    call.fn = "validate_parameters" =>
        /\ raised = "none"
        /\ ret \in BOOLEAN
        /\ (ret = FALSE) <=> MissesRequired(arg.v.schema, arg.v.parameters)
        /\ "required" \notin DOMAIN arg.v.schema => ret = TRUE

\* C14 witness: both required names and an undeclared key are present, and
\* the result is true.
C14_Witness ==
    /\ call.fn = "validate_parameters"
    /\ "required" \in DOMAIN arg.v.schema
    /\ arg.v.schema.required = <<"location", "units">>
    /\ DOMAIN arg.v.parameters = {"location", "units", "extra"}
    /\ ret = TRUE


-----------------------------------------------------------------------------
(* Claim about the records execute returns, checked under SpecExec.         *)

\* C15: every record returned by a tool's execute is a well-formed
\* ToolExecutionResult: success is a boolean, result is present if and only if
\* success is true, error is present if and only if success is false, and
\* tool_name is present and names the executed tool.
C15_ResultIsWellFormed ==
    (call.fn = "execute" /\ raised = "none") =>
        /\ "success" \in DOMAIN ret
        /\ ret.success \in BOOLEAN
        /\ "result" \in DOMAIN ret <=> ret.success
        /\ "error" \in DOMAIN ret <=> ~ret.success
        /\ "tool_name" \in DOMAIN ret
        /\ ret.tool_name = call.tool


-----------------------------------------------------------------------------
(* More claims about the registry, checked under Spec.                      *)

\* The entries of d without the entry of name, in d's order.
Without(d, name) == SelectSeq(d, LAMBDA e : e.k # name)

\* C16: unregister_tool(name) is an idempotent removal that never raises: a
\* registered name loses exactly its entry and every other entry stays as it
\* was, an absent name leaves the registry unchanged, and a second call right
\* after the first leaves the state of the first.
C16_UnregisterIsIdempotent ==
    call.fn = "unregister_tool" =>
        /\ raised = "none"
        /\ ~HasKey(tools, call.tool_name)
        /\ tools = Without(before, call.tool_name)
        /\ ~HasKey(before, call.tool_name) => tools = before
        /\ unregister_tool(tools, call.tool_name).raised = "none"
        /\ unregister_tool(tools, call.tool_name).tools = tools

\* C16 witness: one of two registered names was just removed and the other
\* one is still there.
C16_Witness ==
    /\ call.fn = "unregister_tool"
    /\ Len(before) = 2
    /\ HasKey(before, call.tool_name)
    /\ Len(tools) = 1
    /\ raised = "none"

\* The name has a register_tool call that returned and no unregister_tool or
\* clear since.
CurrentlyRegistered(n) == n \in Names /\ addedBy[n] # NoTool

\* C17: get_tool(name) never raises and never changes the registry: it returns
\* the tool currently registered under name (registered and not since
\* unregistered or cleared) and None for every name not currently registered.
C17_GetToolReturnsCurrentOrNone ==
    call.fn = "get_tool" =>
        /\ raised = "none"
        /\ tools = before
        /\ ret = IF CurrentlyRegistered(call.tool_name)
                 THEN addedBy[call.tool_name] ELSE None

\* C17 witness: get_tool returned None for a name that had been registered and
\* was then unregistered, while another name is still registered.
C17_Witness ==
    /\ call.fn = "get_tool"
    /\ call.tool_name \in Names
    /\ ret = None
    /\ Len(tools) = 1


\* What the three read methods return for the registry dict d.
RegistryView(d) ==
    [list_tools |-> list_tools(d).ret,
     get_tool |-> [n \in LookupNames |-> get_tool(d, n).ret],
     get_tool_schemas |-> get_tool_schemas(d).ret]

\* A change the caller makes to the returned dict leaves the registry's
\* answers as they were.
SnapshotChangeKeepsRegistry ==
    call'.fn \in {"snapshot_setitem", "snapshot_delitem"}
        => RegistryView(tools') = RegistryView(tools)

\* A later change of the registry leaves a returned dict as it was.
RegistryChangeKeepsSnapshot ==
    (call'.fn \in {"register_tool", "unregister_tool", "clear"} /\ snapshot.py = "dict")
        => snapshot'.d = snapshot.d

\* get_all_tools returns the registry's mapping at the time of the call and
\* leaves the registry as it was.
SnapshotIsTheMapping ==
    call.fn = "get_all_tools" => (raised = "none" /\ ret.d = before /\ tools = before)

\* C18: get_all_tools returns a snapshot with copy semantics: adding, removing
\* or replacing entries in the returned mapping never changes what list_tools,
\* get_tool or get_tool_schemas return, and later registry mutations do not
\* change an already returned snapshot.
C18_GetAllToolsReturnsCopy ==
    /\ []SnapshotIsTheMapping
    /\ [][SnapshotChangeKeepsRegistry /\ RegistryChangeKeepsSnapshot]_vars

\* C18 witness: the caller deleted an entry from a snapshot of two tools; the
\* registry still holds both.
C18_Witness ==
    /\ call.fn = "snapshot_delitem"
    /\ snapshot.py = "dict"
    /\ Len(snapshot.d) = 1
    /\ Len(tools) = 2
    /\ Len(list_tools(tools).ret) = 2

\* After clear the registry is empty for every read method, and every name it
\* held registers again.
ClearEmptiesRegistry ==
    call.fn = "clear" =>
        /\ raised = "none"
        /\ list_tools(tools).ret = << >>
        /\ \A n \in LookupNames : get_tool(tools, n).ret = None
        /\ \A t \in ToolPool :
              HasKey(before, t.name) =>
                  /\ register_tool(tools, t).raised = "none"
                  /\ get_tool(register_tool(tools, t).tools, t.name).ret = t

\* The tools a caller obtained before the clear are what they were.
ClearKeepsHeldTools == call'.fn = "clear" => snapshot' = snapshot

\* C19: after clear(), from any registry state, list_tools() is empty,
\* get_tool returns None for every name, and every previously registered name
\* can be registered again without a duplicate error; a tool instance obtained
\* before the clear is itself unchanged by it.
C19_ClearEmptiesRegistry ==
    /\ []ClearEmptiesRegistry
    /\ [][ClearKeepsHeldTools]_vars

\* C19 witness: a registry of two tools was cleared while a caller holds the
\* two tools in a snapshot taken before.
C19_Witness ==
    /\ call.fn = "clear"
    /\ Len(before) = 2
    /\ tools = EmptyDict
    /\ snapshot.py = "dict"
    /\ snapshot.d = before


-----------------------------------------------------------------------------
(* Claim about the per-block machine, checked under SpecStream.             *)

\* The change of block i in a step that receives an event is one of the
\* three transitions, made by an event of that kind for index i.
ListedTransition(i) ==
    LET e == call'.event
        old == blocks[i]
        new == blocks'[i]
    IN  /\ "index" \in DOMAIN e
        /\ e.index = i
        /\ \/ /\ StartsToolUse(e)
              /\ old.state = "NONE"
              /\ new.state = "STARTED"
           \/ /\ CarriesInputJson(e)
              /\ Accumulating(old)
              /\ new = [old EXCEPT !.state = "ACCUMULATING",
                                   !.json = old.json \o e.delta.partial_json]
           \/ /\ HasType(e, "content_block_stop")
              /\ Accumulating(old)
              /\ new = [old EXCEPT !.state = "COMPLETE"]

OnlyListedTransitions ==
    \A i \in BlockIndices :
        /\ (Receiving /\ blocks'[i] # blocks[i]) => ListedTransition(i)
        /\ blocks[i].state = "COMPLETE" => blocks'[i] = blocks[i]

\* C20: per content-block index, Anthropic-style streaming assembly follows
\* only the transitions NONE to STARTED on tool_use_start, STARTED or
\* ACCUMULATING to ACCUMULATING on tool_use_delta (appending the fragment) and
\* to COMPLETE on tool_use_stop; no event changes a block that is COMPLETE, and
\* an event for one block index never changes the state or the accumulated
\* text of another block index.
C20_OnlyListedTransitions == [][OnlyListedTransitions]_vars

\* C20 witness: block 0 is COMPLETE with the text {} and has since received a
\* delta that left it as it was, while block 1 is STARTED.
C20_Witness ==
    /\ call.fn = "parse_streaming_tool_use"
    /\ call.event = BlockDelta(0, [type |-> "input_json_delta", partial_json |-> FragmentClose])
    /\ blocks[0].state = "COMPLETE"
    /\ blocks[0].json = FragmentWhole
    /\ blocks[1].state = "STARTED"
    /\ received = 5


-----------------------------------------------------------------------------
(* Claims about the OpenAI-style decoders, checked under SpecAdapter.       *)

\* The object has the attribute and it holds a value, not None.
Carries(obj, attr) == attr \in DOMAIN obj /\ obj[attr] # None

\* entry[key], if there, is the value the object carried under that name.
OnlyIfCarried(entry, key, obj) ==
    key \in DOMAIN entry => (Carries(obj, key) /\ entry[key] = obj[key])

PassesThrough(entry, partial) ==
    /\ "index" \in DOMAIN entry =>
          ("index" \in DOMAIN partial /\ entry.index = partial.index)
    /\ OnlyIfCarried(entry, "id", partial)
    /\ "function" \in DOMAIN entry =>
          /\ "function" \in DOMAIN partial
          /\ OnlyIfCarried(entry.function, "name", partial.function)
          /\ OnlyIfCarried(entry.function, "arguments", partial.function)

\* C21: parse_streaming_tool_calls returns the empty fragment when the delta
\* has no tool-call list (absent or None) and otherwise one entry per partial
\* tool call in the same order; an entry has index, id, function.name or
\* function.arguments only if the partial tool call carried that field, so no
\* missing field is given a default value.
C21_StreamingDeltaPassesThrough ==
    call.fn = "parse_streaming_tool_calls" =>
        /\ raised = "none"
        /\ IF ~Carries(arg.v, "tool_calls")
           THEN DOMAIN ret = {}
           ELSE /\ DOMAIN ret = {"tool_calls"}
                /\ Len(ret.tool_calls) = Len(arg.v.tool_calls.items)
                /\ \A i \in 1..Len(ret.tool_calls) :
                      PassesThrough(ret.tool_calls[i], arg.v.tool_calls.items[i])


\* C27: every record returned by OpenAI-style parse_tool_calls has parameters
\* that is a JSON object: an arguments string that is valid JSON but not an
\* object (a number, a string, null, an array) never yields parameters that is
\* not an object.
C27_ParametersIsAnObject ==
    (call.fn = "parse_tool_calls" /\ call.adapter = "openai" /\ raised = "none")
        => \A i \in 1..Len(ret) : ret[i].parameters.t = "obj"


-----------------------------------------------------------------------------
(* Claims about the registry's enumeration, checked under Spec.             *)

\* The names of the entries of a schema export, in its order.
SchemaNames(schemas) == [i \in 1..Len(schemas) |-> schemas[i].name]

\* In every registry state the schema export has one entry per registered
\* tool and its names are list_tools.
SchemasFollowListTools ==
    /\ Len(get_tool_schemas(tools).ret) = Len(tools)
    /\ SchemaNames(get_tool_schemas(tools).ret) = list_tools(tools).ret
    /\ call.fn = "get_tool_schemas" => SchemaNames(ret) = list_tools(tools).ret
    /\ call.fn = "list_tools" => ret = list_tools(tools).ret

\* list_tools changes only as registration order says: a register_tool that
\* returns puts its name at the end, unregister_tool takes its name out, clear
\* empties it and nothing else changes it.
ListToolsIsRegistrationOrder ==
    LET names == list_tools(tools).ret
        names2 == list_tools(tools').ret
    IN  CASE call'.fn = "register_tool" /\ raised' = "none" ->
                names2 = Append(names, call'.tool.name)
          [] call'.fn = "unregister_tool" ->
                names2 = SelectSeq(names, LAMBDA n : n # call'.tool_name)
          [] call'.fn = "clear" -> names2 = << >>
          [] OTHER -> names2 = names

\* Two list_tools calls in a row return the same sequence.
RepeatedListToolsAgree ==
    (call.fn = "list_tools" /\ call'.fn = "list_tools") => ret' = ret

\* C24: get_tool_schemas returns exactly one entry per registered tool and
\* its names are list_tools of the same state; list_tools returns the same
\* sequence on repeated calls with no mutation in between, and that sequence
\* is the order in which the currently registered names were registered (a
\* name unregistered and registered again moves to the end).
C24_EnumerationInRegistrationOrder ==
    /\ []SchemasFollowListTools
    /\ [][ListToolsIsRegistrationOrder /\ RepeatedListToolsAgree]_vars

\* C24 witness: the second name of the pool was registered, then the first,
\* the first with its second instance; list_tools gives them in that order.
C24_Witness ==
    /\ call.fn = "list_tools"
    /\ ret = <<NamePool[2], NamePool[1]>>
    /\ addedBy[NamePool[1]].inst = 2
    /\ SchemaNames(get_tool_schemas(tools).ret) = ret


\* C25, as stated: each entry returned by get_tool_schemas is a record with
\* exactly the fields name, description and parameters_schema, holding the
\* tool's name, description and parameters_schema.
C25_SchemaEntryFieldsAsStated ==
    call.fn = "get_tool_schemas" =>
        \A i \in 1..Len(ret) :
            /\ DOMAIN ret[i] = {"name", "description", "parameters_schema"}
            /\ ret[i].name = before[i].v.name
            /\ ret[i].description = before[i].v.description
            /\ ret[i].parameters_schema = before[i].v.parameters_schema

\* C25, amended: each entry returned by get_tool_schemas is a record with
\* exactly the fields name, description and parameters, holding the tool's
\* name, description and parameters_schema; there is one entry per registered
\* tool, in the registry's order.
C25_SchemaEntryFields ==
    call.fn = "get_tool_schemas" =>
        /\ raised = "none"
        /\ Len(ret) = Len(before)
        /\ \A i \in 1..Len(ret) :
              /\ DOMAIN ret[i] = {"name", "description", "parameters"}
              /\ ret[i].name = before[i].v.name
              /\ ret[i].description = before[i].v.description
              /\ ret[i].parameters = before[i].v.parameters_schema

\* C25 witness: the schema export of a registry of two tools, the first of
\* them the system tool.
C25_Witness ==
    /\ call.fn = "get_tool_schemas"
    /\ Len(ret) = 2
    /\ ret[1].name = "system"
    /\ ret[1].description = Description("system")
    /\ ret[1].parameters = ParametersSchema("system")


\* C26: there is exactly one registry per process: every ToolRegistry()
\* construction and every get_registry() call returns the same instance, and
\* constructing ToolRegistry() again after tools have been registered neither
\* resets nor alters the registered tools, so a tool registered through one
\* reference is visible through every other.
C26_OneRegistryPerProcess ==
    /\ instance = ModuleRegistry
    /\ call.fn \in {"ToolRegistry", "get_registry"} =>
          /\ raised = "none"
          /\ ret = ModuleRegistry
          /\ tools = before
          /\ \A n \in Names : CurrentlyRegistered(n) => get_tool(tools, n).ret = addedBy[n]

\* C26 witness: ToolRegistry() was constructed again while two tools are
\* registered, and both are still there.
C26_Witness ==
    /\ call.fn = "ToolRegistry"
    /\ ret = ModuleRegistry
    /\ Len(before) = 2
    /\ Len(tools) = 2


\* The step receives the content_block_stop of a block that a
\* content_block_start opened and no content_block_stop has closed yet.
StopsOpenBlock ==
    /\ Receives("content_block_stop")
    /\ openBlock[call'.event.index] # "none"

EmitsToolUseStop == "event" \in DOMAIN ret' /\ ret'.event = "tool_use_stop"

\* C29: each tool_use_stop fragment emitted by parse_streaming_tool_use is
\* preceded by a tool_use_start fragment for the same content block with no
\* other tool_use_stop in between: the content_block_stop of a block that
\* was opened as something other than tool_use emits no tool_use_stop.
C29_StopOnlyAfterToolUseStart ==
    [][StopsOpenBlock /\ EmitsToolUseStop => openBlock[call'.event.index] = "tool_use"]_vars


-----------------------------------------------------------------------------
(* Claims about main.py, checked under SpecMain.                            *)

KindOf(provider_name) ==
    IF provider_name = OpenAIName THEN "OpenAIProvider" ELSE "AnthropicProvider"

\* C28: a get_provider(provider_name, api_key) call that returns gives a
\* provider of the requested kind whose stored api_key equals the api_key
\* passed to the call: a provider created for one key is never returned for
\* a different key.
C28_ProviderHoldsTheCallersKey ==
    (call.fn = "get_provider" /\ raised = "none") =>
        /\ ret.kind = KindOf(call.provider_name)
        /\ ret.api_key = call.api_key


\* The provider objects handed out so far: every one is in the cache.
HandedOut == {providers[i].v : i \in 1..Len(providers)}

\* The step is a request obtaining its provider.
ObtainsProvider ==
    /\ call'.fn \in {"get_provider", "event_stream"}
    /\ "provider_name" \in DOMAIN call'
    /\ raised' = "none"

\* C23: requests share no mutable state other than the Tool Registry: each
\* request is served with its own provider client handle, so the handle a
\* request obtains is not one that an earlier request was given.
C23_EachRequestHasItsOwnProvider ==
    [][ObtainsProvider => ret' \notin HandedOut]_vars

EventsOf(chunks) == [i \in 1..Len(chunks) |-> ChunkEvent(chunks[i])]

IsTerminal(e) == "literal" \in DOMAIN e.data \/ "error" \in DOMAIN e.data

Terminals == {i \in 1..Len(emitted) : IsTerminal(emitted[i])}

\* The events before the terminal one, or all of them when there is none.
ChunkPart ==
    IF Terminals = {} THEN emitted ELSE SubSeq(emitted, 1, Len(emitted) - 1)

\* C30 as stated: in every /chat/stream event stream the chunk events come
\* in the order the provider yielded them and there is exactly one terminal
\* event: the '[DONE]' event comes once, after all chunk events, if and only
\* if the provider stream finished without an exception; otherwise a single
\* error event is the last event, and no '[DONE]' or chunk event follows it.
C30_ExactlyOneTerminalEvent ==
    /\ ChunkPart = EventsOf(yielded)
    /\ Terminals \subseteq {Len(emitted)}
    /\ pc = "streaming" => Terminals = {}
    /\ pc = "closed" =>
          /\ Terminals = {Len(emitted)}
          /\ emitted[Len(emitted)] = DoneEvent <=> upstream = "finished"
          /\ "error" \in DOMAIN emitted[Len(emitted)].data <=> upstream # "finished"

LastIs(field) ==
    /\ Terminals = {Len(emitted)}
    /\ field \in DOMAIN emitted[Len(emitted)].data

\* C30: in every /chat/stream event stream the chunk events come in the
\* order the provider yielded them and at most one terminal event follows
\* them, as the last event: '[DONE]' if and only if the provider stream
\* finished without raising, a single error event if and only if
\* get_provider or the provider stream raised an Exception; a stream that its
\* consumer closes or that is cancelled (GeneratorExit, CancelledError: not
\* Exceptions) ends with no terminal event.
C30_OneTerminalEventLast ==
    /\ ChunkPart = EventsOf(yielded)
    /\ Terminals \subseteq {Len(emitted)}
    /\ pc = "streaming" => Terminals = {}
    /\ pc = "closed" =>
          /\ upstream = "finished" <=> (LastIs("literal") /\ emitted[Len(emitted)] = DoneEvent)
          /\ upstream \in {"raised", "none"} <=> LastIs("error")
          /\ upstream \in {"closed", "base_exception"} <=> Terminals = {}

\* C30 witness: a stream that failed after two chunks ended with the error
\* event.
C30_Witness ==
    /\ pc = "closed"
    /\ Len(yielded) = 2
    /\ yielded[1] # yielded[2]
    /\ upstream = "raised"
    /\ Len(emitted) = 3
    /\ LastIs("error")


-----------------------------------------------------------------------------
(* Claims about concurrent registry calls, checked under SpecConc.          *)

Finished(t) == tasks[t].pc = "done"

\* The two finished calls raised and returned, and left the registry, as the
\* whole methods do when t's runs first and u's after it.
AsIfInOrder(t, u) ==
    LET first == RegistryCall(tasks[t].op, before)
        second == RegistryCall(tasks[u].op, first.tools)
    IN  /\ tasks[t].raised = first.raised
        /\ tasks[u].raised = second.raised
        /\ tasks[t].ret = first.ret
        /\ tasks[u].ret = second.ret
        /\ tools = second.tools

\* A finished call failed only as its method fails on its own.
FailsOnlyAsDocumented(t) ==
    tasks[t].raised \in
        (IF tasks[t].op.fn = "register_tool" THEN {"none", "ValueError"} ELSE {"none"})

Registers(t, n) ==
    /\ Finished(t)
    /\ tasks[t].op.fn = "register_tool"
    /\ tasks[t].op.tool.name = n

\* Of two finished register_tool calls for the name n, with nothing else
\* run, at most one succeeded, exactly one if n was free, and the tool of
\* the one that succeeded is the registered one.
OneRegistrationWins(t, u, n) ==
    LET won == {w \in {t, u} : tasks[w].raised = "none"}
        lost == {w \in {t, u} : tasks[w].raised = "ValueError"}
    IN  /\ won \cup lost = {t, u}
        /\ Cardinality(won) = IF HasKey(before, n) THEN 0 ELSE 1
        /\ \A w \in won : DictGet(tools, n) = tasks[w].op.tool

\* C22: under any interleaving of concurrent registry operations each
\* operation appears to take effect atomically: list_tools, get_all_tools and
\* get_tool_schemas never observe or fail on a half-updated registry while
\* register_tool, unregister_tool or clear runs, and of two concurrent
\* register_tool calls for the same name exactly one succeeds and the other
\* fails with the duplicate-name error, so no registered tool is overwritten.
C22_RegistryCallsAreAtomic ==
    /\ \A t \in Tasks : Finished(t) => FailsOnlyAsDocumented(t)
    /\ \A t, u \in Tasks :
          (t # u /\ Finished(t) /\ Finished(u)) => (AsIfInOrder(t, u) \/ AsIfInOrder(u, t))
    /\ \A t, u \in Tasks, n \in Names :
          (t # u /\ Registers(t, n) /\ Registers(u, n)) => OneRegistrationWins(t, u, n)

=============================================================================
